---- MODULE Spec2Model ----
(***************************************************************************)
(* Verification model of the ml-dash seller dashboard:                     *)
(*   - the OAuth token holder MercadoLibreAuth (backend/src/auth/oauth.ts) *)
(*   - the error mapping of the proxy routes                               *)
(*   - the pagination loop of GET /api/orders                              *)
(*   - the frontend CachingService over localStorage                       *)
(*   - the CachingInterceptor and the PublicationsListComponent behind it  *)
(*   - the handlers of GET /api/orders and of /api/items with their cache  *)
(* Asynchronous methods are split at their awaits on I/O: everything a     *)
(* handler does between two I/O completions is one atomic action, as the   *)
(* single-threaded runtime executes it.                                    *)
(***************************************************************************)
EXTENDS Integers, Sequences, FiniteSets, Bags, TLC

VARIABLES
    now,          \* Date.now(), in milliseconds
    ticks,        \* number of clock advances so far
    env,          \* process.env: KV_REST_API_URL, KV_REST_API_TOKEN, VERCEL
    tokenData,    \* MercadoLibreAuth.tokenData
    kvStore,      \* value under TOKEN_KV_KEY in the key-value store
    tokenFile,    \* content of tokens.json
    issued,       \* number of tokens the auth server has issued
    lastSaved,    \* the token data and the store of the last write saveTokens completed
    calls,        \* bag of the calls into the token holder that await I/O
    lastReturn,   \* outcome of the token-holder call that completed in the last step
    response,     \* HTTP response a route handler sent in the last step
    localStorage, \* the browser's localStorage: key -> value
    constructed,  \* the CachingService has been constructed
    cacheOut,     \* the CachingService operation of the last step and its result
    sets,         \* number of set calls so far
    ordersPc,     \* GET /api/orders: "idle", "loop" (awaiting a page), "done", "failed"
    offset,       \* offset of the pagination loop
    hasMore,      \* hasMore of the pagination loop
    allOrders,    \* allOrders.length
    paging,       \* paging of the page received last
    searchPc,     \* item-id search: "idle", "search", "details", "done", "failed"
    searchMode,   \* "items" (GET /api/items, search/sort mode) or "catalog" (GET /api/images/catalog)
    currentOffset,\* currentOffset of the id search loop
    itemIds,      \* itemIds / allItemIds: the ids fetched so far
    totalItems,   \* totalItems: the total the first page advertised
    firstBatch,   \* no page has been received yet
    batches,      \* GET /api/items: the batches array
    sent,         \* the id lists of the detail requests answered so far
    pages,        \* number of id search requests answered so far
    itemsCache,   \* items.ts: itemsCache, key -> CacheEntry
    catalog,      \* the marketplace: seller -> number of items the seller has
    acked,        \* seller -> number of the last item whose creation was answered 201
    itemReqs,     \* the /api/items requests that await I/O
    itemsOut,     \* the /api/items response sent in the last step
    pending,      \* frontend: the requests CachingInterceptor handed to the next handler
    httpOut,      \* frontend: what CachingInterceptor did in the last step
    hPc,          \* GET /api/orders handler: "idle", "token", "search", "details"
    ordersQuery,  \* req.query of the request being handled: from, to
    apiParams,    \* apiParams of the handler
    orderList,    \* the orders the search found (allOrders), by id
    detailedOrders, \* per order: "pending", or the entry its detail request produced
    detailOk,     \* per order: did its detail request succeed (FALSE while pending)
    ordersOut,    \* the /api/orders response sent in the last step
    dataSource,   \* PublicationsListComponent: the pages shown, in order
    isLoading,
    isLoadingMore,
    currentPage,
    listTotalItems, \* totalItems of the component
    listHasMore,  \* hasMore of the component
    listSearchQuery, \* searchQuery of the component
    listReqs,     \* GET /items requests of the component that the backend has not answered
    loads,        \* calls of loadPublications so far
    relisted,     \* relists the marketplace has carried out
    isLoadingVisits,
    visitReqs,    \* GET /items/visits requests in flight, each by the items asked for
    relistReqs    \* POST /items/:id/relist requests in flight; done: the item is relisted

authVars ==
    <<env, tokenData, kvStore, tokenFile, issued, lastSaved, calls, lastReturn, response>>

cacheVars == <<localStorage, constructed, cacheOut, sets>>

ordersVars == <<ordersPc, offset, hasMore, allOrders, paging>>

searchVars ==
    <<searchPc, searchMode, currentOffset, itemIds, totalItems, firstBatch, batches, sent,
      pages>>

\* the variables of the handlers modelled after the token holder, the
\* CachingService and the orders loop
itemsVars == <<itemsCache, catalog, acked, itemReqs, itemsOut>>

httpVars == <<pending, httpOut>>

handlerVars == <<hPc, ordersQuery, apiParams, orderList, detailedOrders, detailOk, ordersOut>>

\* the variables of the handlers and components modelled last
listVars ==
    <<dataSource, isLoading, isLoadingMore, currentPage, listTotalItems, listHasMore,
      listSearchQuery, listReqs, loads, relisted, isLoadingVisits, visitReqs, relistReqs>>

restVars == <<handlerVars, listVars>>

moreVars == <<searchVars, itemsVars, httpVars, restVars>>

vars == <<now, ticks, authVars, cacheVars, ordersVars, moreVars>>

----------------------------------------------------------------------------
(* Bounds *)

MaxCalls == 2
MaxTicks == 1
\* milliseconds that pass between the clock reads of one synchronous call,
\* in all
MaxLapses == 1
MaxTokens == 2
MaxSets == 2
MaxCreated == 1

\* items every seller has listed at the start
Listed == 2

\* PublicationsListComponent: calls of loadPublications, relists, and the
\* publications the seller has before any relist
MaxLoads == 2
MaxRelists == 1
ListTotal == 100

----------------------------------------------------------------------------
(* Values *)

\* JavaScript null / undefined
Null == [null |-> TRUE]

\* 5 * 60 * 1000
fiveMinutes == 300000

\* TokenData: refresh_token = 0 stands for a response without refresh_token
Token(a, r, e, t) ==
    [access_token |-> a, refresh_token |-> r, expires_in |-> e, created_at |-> t]

\* expires_in (seconds) of the tokens the auth server hands out
ExpiresInChoices == {21600}

\* JSON.stringify / JSON.parse of the token blob
Stringify(td) == [json |-> td]

Unparsable == [garbage |-> TRUE]

CanParse(s) == "json" \in DOMAIN s

Parse(s) == s.json

\* Error objects: message, response.status (0: no response attached) and
\* response.data.message ("": the response body carries no message)
NoTokenError ==
    [message |-> "No token available. Please authorize the app first.",
     status |-> 0, scopes |-> FALSE, data |-> ""]

NoRefreshError ==
    [message |-> "No refresh token available", status |-> 0, scopes |-> FALSE, data |-> ""]

AxiosError(st) ==
    [message |-> IF st = 0 THEN "Network Error" ELSE "Request failed",
     status |-> st, scopes |-> FALSE, data |-> ""]

\* a rejection whose response body carries a message of the marketplace
ApiError(st) ==
    [message |-> "Request failed", status |-> st, scopes |-> FALSE, data |-> "invalid request"]

\* statuses with which the auth server rejects a grant (0: network failure)
AuthFailures == {0, 400, 401}

----------------------------------------------------------------------------
(* The catch blocks of the route handlers: error object -> HTTP status *)

\* error.message?.includes('No token available')
includesNoTokenAvailable(err) ==
    err.message = "No token available. Please authorize the app first."

\* GET /api/orders
ordersCatch(err) ==
    IF includesNoTokenAvailable(err) THEN 401 ELSE 500

\* GET /api/shipments/:id
shipmentsCatch(err) ==
    IF includesNoTokenAvailable(err) THEN 401
    ELSE IF err.status = 404 THEN 404
    ELSE 500

\* POST /api/items
itemsCreateCatch(err) ==
    IF includesNoTokenAvailable(err) THEN 401
    ELSE IF err.scopes THEN 403
    ELSE IF err.status = 400 THEN 400
    ELSE 500

\* GET /api/items
itemsListCatch(err) == 500

\* GET /api/items/visits (outer catch)
itemsVisitsCatch(err) == 500

\* GET /api/items/:id/description: a missing description is an empty one
itemsDescriptionCatch(err) ==
    IF err.status = 404 THEN 200 ELSE 500

\* POST /api/items/:id/relist
itemsRelistCatch(err) == 500

\* POST /api/images/upload
imagesUploadCatch(err) ==
    IF err.status = 401 THEN 401
    ELSE IF err.status = 400 THEN 400
    ELSE IF err.status # 0 THEN err.status
    ELSE 500

\* GET /api/images/catalog
imagesCatalogCatch(err) ==
    IF err.status = 401 THEN 401 ELSE 500

\* GET /api/categories/predict
categoriesPredictCatch(err) ==
    IF err.status = 401 THEN 401 ELSE 500

\* POST /api/images/diagnostic
imagesDiagnosticCatch(err) ==
    IF err.status = 401 THEN 401
    ELSE IF err.status = 400 THEN 400
    ELSE IF err.status # 0 THEN err.status
    ELSE 500

\* GET /api/categories/:id/attributes
categoriesAttributesCatch(err) ==
    IF err.status = 401 THEN 401
    ELSE IF err.status = 404 THEN 404
    ELSE 500

\* GET /api/categories/:id
categoriesDetailCatch(err) ==
    IF err.status = 404 THEN 404 ELSE 500

Routes ==
    {"orders", "shipments", "itemsCreate", "itemsList", "itemsVisits",
     "itemsDescription", "itemsRelist", "imagesUpload", "imagesDiagnostic",
     "imagesCatalog", "categoriesPredict", "categoriesAttributes", "categoriesDetail"}

routeCatch(route, err) ==
    CASE route = "orders" -> ordersCatch(err)
      [] route = "shipments" -> shipmentsCatch(err)
      [] route = "itemsCreate" -> itemsCreateCatch(err)
      [] route = "itemsList" -> itemsListCatch(err)
      [] route = "itemsVisits" -> itemsVisitsCatch(err)
      [] route = "itemsDescription" -> itemsDescriptionCatch(err)
      [] route = "itemsRelist" -> itemsRelistCatch(err)
      [] route = "imagesUpload" -> imagesUploadCatch(err)
      [] route = "imagesCatalog" -> imagesCatalogCatch(err)
      [] route = "categoriesPredict" -> categoriesPredictCatch(err)
      [] route = "imagesDiagnostic" -> imagesDiagnosticCatch(err)
      [] route = "categoriesAttributes" -> categoriesAttributesCatch(err)
      [] route = "categoriesDetail" -> categoriesDetailCatch(err)

\* status of the response when the upstream request succeeded
routeSuccess(route) == IF route = "itemsCreate" THEN 201 ELSE 200

\* the requests a handler sends to the marketplace once getToken has
\* returned, in the order of its awaits; a loop and a Promise.all stand here
\* by the request they repeat
upstreamRequests(route) ==
    CASE route = "orders" -> <<"users/me", "orders/search", "orders/:id">>
      [] route = "shipments" -> <<"shipments/:id">>
      [] route = "itemsCreate" -> <<"items", "users/me", "items/:id/description">>
      [] route = "itemsList" -> <<"users/me", "users/:id/items/search", "items?ids">>
      [] route = "itemsVisits" -> <<"visits/items">>
      [] route = "itemsDescription" -> <<"items/:id/description">>
      [] route = "itemsRelist" -> <<"items/:id/relist">>
      [] route = "imagesUpload" -> <<"pictures/items/upload">>
      [] route = "imagesDiagnostic" -> <<"moderations/pictures/diagnostic">>
      [] route = "imagesCatalog" -> <<"users/me", "users/:id/items/search", "items?ids">>
      [] route = "categoriesPredict" -> <<"sites/MLM/domain_discovery/search">>
      [] route = "categoriesAttributes" -> <<"categories/:id/attributes">>
      [] route = "categoriesDetail" -> <<"categories/:id">>

\* requests inside a try/catch of their own: the handler logs their failure
\* and goes on (the basic order, no description, 0 visits)
failureSwallowed(route, request) ==
    <<route, request>> \in {<<"orders", "orders/:id">>,
                            <<"itemsCreate", "items/:id/description">>,
                            <<"itemsVisits", "visits/items">>}

\* requests that a loop or a Promise.all of the handler sends more than
\* once: after the answer to one of them the handler may have another to
\* send (loop) or to wait for (Promise.all)
sentAgain(route, request) ==
    request \in {"orders/search", "orders/:id", "items?ids", "visits/items"}
        \/ <<route, request>> = <<"imagesCatalog", "users/:id/items/search">>

\* answers after which the handler may have nothing left to ask for and
\* responds at once: a search that found no orders (Promise.all of no
\* detail requests) or no items (no detail batches), and the users/me of an
\* item created without a description, or with a blank one
endsEarly(route, request) ==
    <<route, request>> \in {<<"orders", "orders/search">>,
                            <<"itemsList", "users/:id/items/search">>,
                            <<"imagesCatalog", "users/:id/items/search">>,
                            <<"itemsCreate", "users/me">>}

\* failures of a marketplace request
ScopesError ==
    [message |-> "Request failed", status |-> 403, scopes |-> TRUE, data |-> "invalid scopes"]

UpstreamFailures == {AxiosError(st) : st \in {0, 400, 401, 404, 500}} \cup {ScopesError}

----------------------------------------------------------------------------
(* MercadoLibreAuth *)

\* isTokenExpired without the five-minute margin
isTokenExpiredAt_NoMargin(td, t) ==
    IF td = Null THEN TRUE
    ELSE t >= td.created_at + (td.expires_in * 1000)

isTokenExpiredAt(td, t) ==
    IF td = Null THEN TRUE
    ELSE LET expirationTime == td.created_at + (td.expires_in * 1000)
         IN  t >= (expirationTime - fiveMinutes)

isTokenExpired == isTokenExpiredAt(tokenData, now)

hasValidToken == tokenData # Null /\ ~isTokenExpired

isServerless == env.serverless

\* kvRestApi returns null without any fetch when url or token is missing
kvReachable == env.kvUrl /\ env.kvToken

\* a caller that has not reached its first await; called is the instant of
\* the call, checked the instant at which getToken looks at the token data
\* (that of the call until it does)
NewCall(op, route) ==
    [op |-> op, route |-> route, pc |-> "start", requests |-> 0, held |-> Null,
     value |-> Null, data |-> Null, loaded |-> "none", called |-> now,
     checked |-> now, step |-> 0]

NoReturn ==
    [op |-> "none", outcome |-> "none", result |-> 0, error |-> Null,
     requests |-> 0, held |-> Null, loaded |-> "none", called |-> 0, checked |-> 0]

NoResponse == [route |-> "none", status |-> 0, error |-> Null, from |-> "none"]

InFlight(pc) == {cr \in BagToSet(calls) : cr.pc = pc}

\* caller old goes on as cr, waiting for I/O
await(old, cr) ==
    /\ calls' = (calls (-) SetToBag({old})) (+) SetToBag({cr})
    /\ lastReturn' = NoReturn
    /\ response' = NoResponse

\* the call of old (by now cr) resolves with the access token of td; a route
\* handler goes on to its upstream request
resolve(old, cr, td) ==
    /\ calls' = IF cr.route \in {"none", "callback"}
                THEN calls (-) SetToBag({old})
                ELSE (calls (-) SetToBag({old}))
                        (+) SetToBag({[cr EXCEPT !.pc = "upstream", !.value = Null,
                                                    !.step = 1]})
    /\ lastReturn' = [op |-> cr.op, outcome |-> "returned",
                      result |-> td.access_token, error |-> Null,
                      requests |-> cr.requests, held |-> cr.held, loaded |-> cr.loaded,
                      called |-> cr.called, checked |-> cr.checked]
    /\ response' = IF cr.route = "callback"
                   THEN [route |-> "callback", status |-> 200, error |-> Null,
                         from |-> "getAccessToken"]
                   ELSE NoResponse

\* the call of old (by now cr) rejects with err; a route handler catches it
reject(old, cr, err) ==
    /\ calls' = calls (-) SetToBag({old})
    /\ lastReturn' = [op |-> cr.op, outcome |-> "rejected", result |-> 0,
                      error |-> err, requests |-> cr.requests, held |-> cr.held,
                      loaded |-> cr.loaded, called |-> cr.called, checked |-> cr.checked]
    /\ response' = IF cr.route = "none"
                   THEN NoResponse
                   ELSE IF cr.route = "callback"
                   THEN [route |-> "callback", status |-> 500, error |-> err,
                         from |-> "getAccessToken"]
                   ELSE [route |-> cr.route, status |-> routeCatch(cr.route, err),
                         error |-> err, from |-> "getToken"]

\* the file branch of loadTokensAsync finds a token to parse
fileHasToken == ~isServerless /\ tokenFile # Null /\ CanParse(tokenFile)

\* the file branch of loadTokensAsync, applied to in-memory data td
loadFromFile(td) ==
    IF fileHasToken
    THEN Parse(tokenFile)
    ELSE td

\* refreshAccessToken up to its POST, with in-memory data td
refreshAccessToken(old, cr, td) ==
    IF td = Null \/ td.refresh_token = 0
    THEN reject(old, cr, NoRefreshError)
    ELSE await(old, [cr EXCEPT !.pc = "post", !.requests = @ + 1])

\* getToken from "if (!this.tokenData) throw" on, with in-memory data td;
\* held records the data the caller looked at, loaded where the data came
\* from: "memory", or the "kv" / "file" / "none" that loadTokensAsync logs,
\* checked the Date.now() that isTokenExpired reads
getTokenCheck(old, td, origin) ==
    LET cr == [old EXCEPT !.held = td, !.loaded = origin, !.checked = now] IN
    IF td = Null
    THEN reject(old, cr, NoTokenError)
    ELSE IF isTokenExpiredAt(td, now)
         THEN refreshAccessToken(old, cr, td)
         ELSE resolve(old, cr, td)

\* GET /debug/token after its loadTokensAsync: the answer is 200 with the
\* token data in memory or without any
debugTokenAnswers(old) ==
    /\ calls' = calls (-) SetToBag({old})
    /\ lastReturn' = NoReturn
    /\ response' = [route |-> "debugToken", status |-> 200, error |-> Null,
                    from |-> "loadTokensAsync"]

\* loadTokensAsync has returned to its caller old, the memory holding td
afterLoad(old, td, origin) ==
    IF old.op = "debugToken" THEN debugTokenAnswers(old) ELSE getTokenCheck(old, td, origin)

\* GET /debug/token: loadTokensAsync is called whatever the memory holds
DebugTokenCall ==
    /\ BagCardinality(calls) < MaxCalls
    /\ LET cr == NewCall("debugToken", "debugToken") IN
       IF env.kvUrl /\ kvReachable
       THEN /\ await(cr, [cr EXCEPT !.pc = "kvGet"])
            /\ UNCHANGED tokenData
       ELSE /\ tokenData' = loadFromFile(tokenData)
            /\ debugTokenAnswers(cr)
    /\ UNCHANGED <<now, ticks, env, kvStore, tokenFile, issued>>
    /\ UNCHANGED lastSaved
    /\ UNCHANGED <<cacheVars, ordersVars, moreVars>>

\* getToken(): entry, on behalf of a route handler or of no one
GetTokenCall(route) ==
    /\ BagCardinality(calls) < MaxCalls
    /\ LET cr == NewCall("getToken", route) IN
       IF tokenData = Null
       THEN IF env.kvUrl /\ kvReachable
            THEN /\ await(cr, [cr EXCEPT !.pc = "kvGet"])
                 /\ UNCHANGED tokenData
            ELSE LET td == loadFromFile(tokenData) IN
                 /\ tokenData' = td
                 /\ getTokenCheck(cr, td, IF fileHasToken THEN "file" ELSE "none")
       ELSE /\ UNCHANGED tokenData
            /\ getTokenCheck(cr, tokenData, "memory")
    /\ UNCHANGED <<now, ticks, env, kvStore, tokenFile, issued>>
    /\ UNCHANGED lastSaved
    /\ UNCHANGED <<cacheVars, ordersVars, moreVars>>

\* loadTokensAsync: the key-value store answered the GET (ok) or failed
KvGetResponse(cr, ok) ==
    /\ cr \in InFlight("kvGet")
    /\ LET result == IF ok THEN kvStore ELSE Null
           fromKv == result # Null /\ CanParse(result)
           td == IF fromKv THEN Parse(result) ELSE loadFromFile(tokenData)
       IN /\ tokenData' = td
          /\ afterLoad(cr, td, IF fromKv THEN "kv"
                                ELSE IF fileHasToken THEN "file" ELSE "none")
    /\ UNCHANGED <<now, ticks, env, kvStore, tokenFile, issued>>
    /\ UNCHANGED lastSaved
    /\ UNCHANGED <<cacheVars, ordersVars, moreVars>>

\* refreshAccessToken(): entry, called directly
RefreshCall ==
    /\ BagCardinality(calls) < MaxCalls
    /\ LET cr == NewCall("refreshAccessToken", "none") IN
       refreshAccessToken(cr, cr, tokenData)
    /\ UNCHANGED <<now, ticks, env, tokenData, kvStore, tokenFile, issued>>
    /\ UNCHANGED lastSaved
    /\ UNCHANGED <<cacheVars, ordersVars, moreVars>>

\* getAccessToken(code): entry, called by route ("none": called directly)
getAccessTokenFor(route) ==
    /\ BagCardinality(calls) < MaxCalls
    /\ LET cr == NewCall("getAccessToken", route) IN
       await(cr, [cr EXCEPT !.pc = "post", !.requests = @ + 1])
    /\ UNCHANGED <<now, ticks, env, tokenData, kvStore, tokenFile, issued>>
    /\ UNCHANGED lastSaved
    /\ UNCHANGED <<cacheVars, ordersVars, moreVars>>

GetAccessTokenCall == getAccessTokenFor("none")

\* saveTokens that prefers the file and uses the key-value store only when
\* serverless
saveTokens_FileFirst(td, fileOk) ==
    IF ~isServerless
    THEN IF fileOk THEN <<"saved", Null, Stringify(td)>> ELSE <<"saved", Null, tokenFile>>
    ELSE IF env.kvUrl /\ kvReachable
         THEN <<"kvSet", Stringify(td), tokenFile>>
         ELSE <<"saved", Null, tokenFile>>

\* saveTokens, up to its first await, for in-memory data td:
\* <<next pc, value in flight, tokens.json afterwards>>
saveTokens(td, fileOk) ==
    IF env.kvUrl
    THEN IF kvReachable
         THEN <<"kvSet", Stringify(td), tokenFile>>
         ELSE <<"saved", Null, tokenFile>>
    ELSE IF ~isServerless /\ fileOk
         THEN <<"saved", Null, Stringify(td)>>
         ELSE <<"saved", Null, tokenFile>>

\* the auth server granted the POST of getAccessToken / refreshAccessToken; a
\* code exchange for an app without offline access carries no refresh_token
PostOk(cr, e, withRefresh, fileOk) ==
    /\ cr \in InFlight("post")
    /\ issued < MaxTokens
    /\ (~withRefresh => cr.op = "getAccessToken")
    /\ LET id == issued + 1
           td == Token(id, IF withRefresh THEN id ELSE 0, e, now)
           sv == saveTokens(td, fileOk)
       IN /\ tokenData' = td
          /\ issued' = id
          /\ tokenFile' = sv[3]
          /\ lastSaved' = IF sv[3] # tokenFile
                          THEN [store |-> "file", data |-> td]
                          ELSE lastSaved
          /\ IF sv[1] = "kvSet"
             THEN await(cr, [cr EXCEPT !.pc = "kvSet", !.value = sv[2], !.data = td])
             ELSE resolve(cr, cr, td)
    /\ UNCHANGED <<now, ticks, env, kvStore>>
    /\ UNCHANGED <<cacheVars, ordersVars, moreVars>>

\* a failed refresh that also forgets the token it could not refresh
postFailed_DropsToken(cr, st) ==
    /\ reject(cr, cr, AxiosError(st))
    /\ tokenData' = Null
    /\ UNCHANGED <<kvStore, tokenFile>>

\* the catch block of getAccessToken / refreshAccessToken: log and rethrow
postFailed(cr, st) ==
    /\ reject(cr, cr, AxiosError(st))
    /\ UNCHANGED <<tokenData, kvStore, tokenFile>>

\* the auth server refused the POST, or the request failed
PostFail(cr, st) ==
    /\ cr \in InFlight("post")
    /\ postFailed(cr, st)
    /\ UNCHANGED <<now, ticks, env, issued>>
    /\ UNCHANGED lastSaved
    /\ UNCHANGED <<cacheVars, ordersVars, moreVars>>

\* saveTokens: the key-value store answered the SET (ok) or failed; kvRestApi
\* swallows the failure, saveTokens returns, and the caller resumes with
\* this.tokenData as it is by then
KvSetResponse(cr, ok) ==
    /\ cr \in InFlight("kvSet")
    /\ kvStore' = IF ok THEN cr.value ELSE kvStore
    /\ lastSaved' = IF ok THEN [store |-> "kv", data |-> cr.data] ELSE lastSaved
    /\ resolve(cr, [cr EXCEPT !.value = Null, !.data = Null], tokenData)
    /\ UNCHANGED <<now, ticks, env, tokenData, tokenFile, issued>>
    /\ UNCHANGED <<cacheVars, ordersVars, moreVars>>

----------------------------------------------------------------------------
(* Environment *)

TokensInSight ==
    {td \in {tokenData,
             IF kvStore # Null /\ CanParse(kvStore) THEN Parse(kvStore) ELSE Null,
             IF tokenFile # Null /\ CanParse(tokenFile) THEN Parse(tokenFile) ELSE Null}
        : td # Null}

refreshThreshold(td) == td.created_at + (td.expires_in * 1000) - fiveMinutes

\* instants the clock may jump to: the next millisecond and the instants around
\* the refresh threshold of each token held or persisted
ClockTargets ==
    {t \in {now + 1}
           \cup {refreshThreshold(td) - 1 : td \in TokensInSight}
           \cup {refreshThreshold(td) : td \in TokensInSight}
        : t > now}

\* milliseconds that may pass between two clock reads of one synchronous
\* call: none, or the next millisecond
Lapses == {d \in 0..MaxLapses : ticks + d <= MaxTicks + MaxLapses}

\* time passes, between the requests and while calls await their I/O
Tick ==
    /\ ticks < MaxTicks
    /\ \E t \in ClockTargets : now' = t
    /\ ticks' = ticks + 1
    /\ lastReturn' = NoReturn
    /\ response' = NoResponse
    /\ UNCHANGED <<env, tokenData, kvStore, tokenFile, issued, calls>>
    /\ UNCHANGED lastSaved
    /\ UNCHANGED <<cacheVars, ordersVars, moreVars>>

Environments ==
    { [kvUrl |-> FALSE, kvToken |-> FALSE, serverless |-> FALSE],
      [kvUrl |-> TRUE,  kvToken |-> TRUE,  serverless |-> FALSE],
      [kvUrl |-> TRUE,  kvToken |-> TRUE,  serverless |-> TRUE],
      [kvUrl |-> TRUE,  kvToken |-> FALSE, serverless |-> FALSE] }

\* tokens persisted by an earlier run of the process; the second was granted
\* without offline access and carries no refresh_token
StoredInKv == Token(100, 100, 21600, 0)

StoredInFile == Token(101, 0, 21600, 0)

NoOp == [op |-> "none", key |-> << >>, result |-> Null, log |-> "none"]

EmptyStore == [x \in {} |-> Null]

CacheIdle ==
    /\ localStorage = EmptyStore
    /\ constructed = FALSE
    /\ cacheOut = NoOp
    /\ sets = 0

OrdersIdle ==
    /\ ordersPc = "idle"
    /\ offset = 0
    /\ hasMore = FALSE
    /\ allOrders = 0
    /\ paging = Null

SearchIdle ==
    /\ searchPc = "idle"
    /\ searchMode = "items"
    /\ currentOffset = 0
    /\ itemIds = << >>
    /\ totalItems = 0
    /\ firstBatch = TRUE
    /\ batches = << >>
    /\ sent = << >>
    /\ pages = 0

\* the handlers modelled after the orders loop are not running
Sellers == {1, 2}

NoItemsOut ==
    [kind |-> "none", status |-> 0, cached |-> FALSE, seller |-> 0, items |-> << >>,
     cachedItems |-> << >>, total |-> 0]

ItemsIdle ==
    /\ itemsCache = << >>
    /\ catalog = [s \in Sellers |-> Listed]
    /\ acked = [s \in Sellers |-> 0]
    /\ itemReqs = {}
    /\ itemsOut = NoItemsOut

NoHttpOut ==
    [kind |-> "none", method |-> "none", url |-> << >>, status |-> 0, body |-> Null,
     fromCache |-> FALSE]

HttpIdle ==
    /\ pending = EmptyBag
    /\ httpOut = NoHttpOut

Undefined == [type |-> "undefined", text |-> ""]

NoOrdersOut == [status |-> 0, message |-> "none", body |-> << >>]

HandlerIdle ==
    /\ hPc = "idle"
    /\ ordersQuery = [from |-> Undefined, to |-> Undefined]
    /\ apiParams = [sort |-> "date_desc", limit |-> 0, from |-> Undefined, to |-> Undefined]
    /\ orderList = << >>
    /\ detailedOrders = << >>
    /\ detailOk = << >>
    /\ ordersOut = NoOrdersOut

\* the component as constructed, before ngOnInit
ListIdle ==
    /\ dataSource = << >>
    /\ isLoading = FALSE
    /\ isLoadingMore = FALSE
    /\ currentPage = 0
    /\ listTotalItems = 0
    /\ listHasMore = FALSE
    /\ listSearchQuery = << >>
    /\ listReqs = {}
    /\ loads = 0
    /\ relisted = 0
    /\ isLoadingVisits = FALSE
    /\ visitReqs = EmptyBag
    /\ relistReqs = EmptyBag

RestIdle ==
    /\ HandlerIdle
    /\ ListIdle

MoreIdle ==
    /\ SearchIdle
    /\ ItemsIdle
    /\ HttpIdle
    /\ RestIdle

InitAuth ==
    /\ CacheIdle
    /\ OrdersIdle
    /\ MoreIdle
    /\ now = 0
    /\ ticks = 0
    /\ env \in Environments
    /\ tokenData = Null
    /\ kvStore \in {Null, Stringify(StoredInKv)}
    /\ tokenFile \in {Null, Unparsable, Stringify(StoredInFile)}
    /\ (~kvReachable => kvStore = Null)
    /\ (env.serverless => tokenFile = Null)
    /\ issued = 0
    /\ lastSaved = Null
    /\ calls = EmptyBag
    /\ lastReturn = NoReturn
    /\ response = NoResponse

NextAuth ==
    \/ Tick
    \/ GetTokenCall("none")
    \/ RefreshCall
    \/ GetAccessTokenCall
    \/ \E cr \in BagToSet(calls), ok \in BOOLEAN : KvGetResponse(cr, ok)
    \/ \E cr \in BagToSet(calls), e \in ExpiresInChoices, r \in BOOLEAN, f \in BOOLEAN :
          PostOk(cr, e, r, f)
    \/ \E cr \in BagToSet(calls), st \in AuthFailures : PostFail(cr, st)
    \/ \E cr \in BagToSet(calls), ok \in BOOLEAN : KvSetResponse(cr, ok)

\* concurrent calls into the token holder
SpecAuth == InitAuth /\ [][NextAuth]_vars

\* route handlers, one request at a time
RouteRequest(route) ==
    /\ calls = EmptyBag
    /\ GetTokenCall(route)

DebugTokenRequest ==
    /\ calls = EmptyBag
    /\ DebugTokenCall

\* req.query.code: absent, a string (possibly empty), or an array when the
\* parameter is repeated
Queries ==
    {[type |-> "undefined", value |-> ""], [type |-> "string", value |-> ""],
     [type |-> "string", value |-> "TG-1"], [type |-> "object", value |-> "TG-1"]}

\* a callback handler that only tests that the parameter is present
noCode_PresenceOnly(code) == code.type = "undefined"

\* !code || typeof code !== 'string'
noCode(code) ==
    \/ code.type = "undefined"
    \/ code.type = "string" /\ code.value = ""
    \/ code.type # "string"

\* GET /callback: 400 without a code, else the code is exchanged; the pages
\* are sent when getAccessToken settles
CallbackRequest(code) ==
    /\ calls = EmptyBag
    /\ IF noCode(code)
       THEN /\ response' = [route |-> "callback", status |-> 400, error |-> Null,
                            from |-> "handler"]
            /\ lastReturn' = NoReturn
            /\ UNCHANGED <<now, ticks, env, tokenData, kvStore, tokenFile, issued,
                           lastSaved, calls>>
            /\ UNCHANGED <<cacheVars, ordersVars, moreVars>>
       ELSE getAccessTokenFor("callback")

\* the hourly job of server.ts: refreshAccessToken when the test of the job
\* passes, else nothing but the log line. hasValidToken() reads the clock,
\* and when it answers true isTokenExpired() reads it again, lapse
\* milliseconds later.
CronRun(lapse) ==
    /\ calls = EmptyBag
    /\ lapse \in Lapses
    /\ LET later == IF hasValidToken THEN now + lapse ELSE now IN
       /\ now' = later
       /\ ticks' = ticks + (later - now)
       /\ IF hasValidToken /\ isTokenExpiredAt(tokenData, later)
          THEN LET cr == [NewCall("refreshAccessToken", "none") EXCEPT
                            !.called = later, !.checked = later] IN
               refreshAccessToken(cr, cr, tokenData)
          ELSE /\ lastReturn' = [NoReturn EXCEPT !.op = "cron", !.outcome = "skipped"]
               /\ response' = NoResponse
               /\ UNCHANGED calls
    /\ UNCHANGED <<env, tokenData, kvStore, tokenFile, issued, lastSaved>>
    /\ UNCHANGED <<cacheVars, ordersVars, moreVars>>

\* the job runs
CronRuns == \E lapse \in 0..MaxLapses : CronRun(lapse)

\* GET /callback with the code of an authorization, while nothing else runs
CodeExchange == CallbackRequest([type |-> "string", value |-> "TG-1"])

NextCron ==
    \/ Tick
    \/ CronRuns
    \/ CodeExchange
    \/ \E cr \in BagToSet(calls), e \in ExpiresInChoices, r \in BOOLEAN, f \in BOOLEAN :
          PostOk(cr, e, r, f)
    \/ \E cr \in BagToSet(calls), st \in AuthFailures : PostFail(cr, st)
    \/ \E cr \in BagToSet(calls), ok \in BOOLEAN : KvSetResponse(cr, ok)

\* a server that receives no API request: only the authorization callback and
\* the scheduler, which node-cron runs every hour
SpecCron == InitAuth /\ [][NextCron]_vars /\ WF_vars(CronRuns)

\* the process starts anew (a restart, or a cold start of the serverless
\* function): "new MercadoLibreAuth()" holds no token data
Restart ==
    /\ calls = EmptyBag
    /\ tokenData # Null
    /\ tokenData' = Null
    /\ lastReturn' = NoReturn
    /\ response' = NoResponse
    /\ UNCHANGED <<now, ticks, env, kvStore, tokenFile, issued, lastSaved, calls>>
    /\ UNCHANGED <<cacheVars, ordersVars, moreVars>>

\* a call into the token holder while no other is running
CallAlone ==
    /\ calls = EmptyBag
    /\ (GetTokenCall("none") \/ RefreshCall \/ GetAccessTokenCall)

NextPersist ==
    \/ Tick
    \/ Restart
    \/ CallAlone
    \/ \E cr \in BagToSet(calls), ok \in BOOLEAN : KvGetResponse(cr, ok)
    \/ \E cr \in BagToSet(calls), e \in ExpiresInChoices, r \in BOOLEAN, f \in BOOLEAN :
          PostOk(cr, e, r, f)
    \/ \E cr \in BagToSet(calls), st \in AuthFailures : PostFail(cr, st)
    \/ \E cr \in BagToSet(calls), ok \in BOOLEAN : KvSetResponse(cr, ok)

\* one call at a time into the token holder, across restarts of the process
SpecPersist == InitAuth /\ [][NextPersist]_vars

----------------------------------------------------------------------------
(* CachingService over localStorage. Strings are sequences of characters. *)

\* "ml_cache_v1_"
CACHE_PREFIX ==
    <<"m", "l", "_", "c", "a", "c", "h", "e", "_", "v", "1", "_">>

DEFAULT_TTL == 300

\* the patterns /\/auth/i ... /\/debug/i, as the text each looks for
BLACKLIST_PATTERNS ==
    << <<"/", "a", "u", "t", "h">>,
       <<"/", "l", "o", "g", "i", "n">>,
       <<"/", "l", "o", "g", "o", "u", "t">>,
       <<"/", "s", "e", "s", "s", "i", "o", "n">>,
       <<"/", "v", "e", "r", "i", "f", "y">>,
       <<"/", "d", "e", "b", "u", "g">> >>

\* pattern text and ttl in seconds, in table order
CACHE_CONFIGS ==
    << [pattern |-> <<"/", "o", "r", "d", "e", "r", "s">>, ttl |-> 180],
       [pattern |-> <<"/", "i", "t", "e", "m", "s">>, ttl |-> 300],
       [pattern |-> <<"/", "c", "a", "t", "e", "g", "o", "r", "i", "e", "s">>, ttl |-> 3600],
       [pattern |-> <<"/", "g", "a", "l", "l", "e", "r", "y">>, ttl |-> 600],
       [pattern |-> <<"/", "c", "h", "a", "r", "t">>, ttl |-> 600],
       [pattern |-> <<"/", "p", "u", "b", "l", "i", "c", "a", "t", "i", "o", "n", "s">>, ttl |-> 240] >>

\* String.prototype.toLowerCase on the letters A-Z, one character at a time
LowerCaseOf ==
    [A |-> "a", B |-> "b", C |-> "c", D |-> "d", E |-> "e", F |-> "f", G |-> "g",
     H |-> "h", I |-> "i", J |-> "j", K |-> "k", L |-> "l", M |-> "m", N |-> "n",
     O |-> "o", P |-> "p", Q |-> "q", R |-> "r", S |-> "s", T |-> "t", U |-> "u",
     V |-> "v", W |-> "w", X |-> "x", Y |-> "y", Z |-> "z"]

toLowerCase(ch) == IF ch \in DOMAIN LowerCaseOf THEN LowerCaseOf[ch] ELSE ch

toLowerCaseAll(str) == [i \in 1..Len(str) |-> toLowerCase(str[i])]

\* RegExp.test for a literal pattern with the i flag: the text occurs in str,
\* letter case aside
test(pattern, str) ==
    LET p == toLowerCaseAll(pattern)
        s == toLowerCaseAll(str)
    IN  \E i \in 1..(Len(s) - Len(p) + 1) : SubSeq(s, i, i + Len(p) - 1) = p

startsWith(str, prefix) ==
    /\ Len(str) >= Len(prefix)
    /\ SubSeq(str, 1, Len(prefix)) = prefix

\* the blacklist without the i flag
isBlacklisted_CaseSensitive(url) ==
    \E i \in 1..Len(BLACKLIST_PATTERNS) :
        \E k \in 1..(Len(url) - Len(BLACKLIST_PATTERNS[i]) + 1) :
            SubSeq(url, k, k + Len(BLACKLIST_PATTERNS[i]) - 1) = BLACKLIST_PATTERNS[i]

isBlacklisted(url) ==
    \E i \in 1..Len(BLACKLIST_PATTERNS) : test(BLACKLIST_PATTERNS[i], url)

\* a lookup that lets the last matching pattern win
getTTL_LastMatch(url) ==
    LET hits == {i \in 1..Len(CACHE_CONFIGS) : test(CACHE_CONFIGS[i].pattern, url)}
    IN  IF hits = {} THEN DEFAULT_TTL
        ELSE CACHE_CONFIGS[CHOOSE i \in hits : \A k \in hits : i >= k].ttl

getTTL(url) ==
    LET hits == {i \in 1..Len(CACHE_CONFIGS) : test(CACHE_CONFIGS[i].pattern, url)}
    IN  IF hits = {} THEN DEFAULT_TTL
        ELSE CACHE_CONFIGS[CHOOSE i \in hits : \A k \in hits : i <= k].ttl

getCacheKey(key) == CACHE_PREFIX \o key

\* values of localStorage: JSON.stringify(entry), text that JSON.parse
\* rejects, and the empty string
Serialized(data, expiry, timestamp) ==
    [json |-> [data |-> data, expiry |-> expiry, timestamp |-> timestamp]]

EmptyString == [empty |-> TRUE]

\* localStorage.getItem / removeItem / setItem on a store: key -> value
getItem(store, k) == IF k \in DOMAIN store THEN store[k] ELSE Null

removeItem(store, k) == [x \in DOMAIN store \ {k} |-> store[x]]

setItem(store, k, v) == [x \in DOMAIN store \cup {k} |-> IF x = k THEN v ELSE store[x]]

\* "if (item)": getItem gave a non-empty string
truthy(item) == item # Null /\ item # EmptyString

\* request URLs used as cache keys
\* "/api/orders"
URL_ORDERS ==
    <<"/", "a", "p", "i", "/", "o", "r", "d", "e", "r", "s">>

\* "/api/items?q=auth"
URL_ITEMS ==
    <<"/", "a", "p", "i", "/", "i", "t", "e", "m", "s", "?", "q", "=", "a",
      "u", "t", "h">>

\* "/api/Auth/url"
URL_AUTH ==
    <<"/", "a", "p", "i", "/", "A", "u", "t", "h", "/", "u", "r", "l">>

\* "/api/orders/verify"
URL_VERIFY ==
    <<"/", "a", "p", "i", "/", "o", "r", "d", "e", "r", "s", "/", "v", "e",
      "r", "i", "f", "y">>

Urls == {URL_ORDERS, URL_ITEMS, URL_AUTH, URL_VERIFY}

\* URLs for the TTL table
\* "/items/orders": two patterns match, /items first in the URL
URL_ITEM_ORDERS ==
    <<"/", "i", "t", "e", "m", "s", "/", "o", "r", "d", "e", "r", "s">>

\* "/publications"
URL_PUBLICATIONS ==
    <<"/", "p", "u", "b", "l", "i", "c", "a", "t", "i", "o", "n", "s">>

\* "/user": no pattern matches
URL_USER == <<"/", "u", "s", "e", "r">>

TtlUrls == {URL_ORDERS, URL_ITEM_ORDERS, URL_PUBLICATIONS, URL_USER}

DecimalDigits == <<"0", "1", "2", "3", "4", "5", "6", "7", "8", "9">>

\* Number.prototype.toString for a natural number
RECURSIVE toString(_)
toString(n) ==
    IF n < 10 THEN <<DecimalDigits[n + 1]>>
    ELSE toString(n \div 10) \o <<DecimalDigits[(n % 10) + 1]>>

\* pageSize of PublicationsListComponent
pageSize == 50

\* the texts the user types into the search box
SearchTexts == {<< >>, <<"a">>}

\* urlWithParams of the GET of loadPublications, with apiUrl = "/api" and the
\* status, listing type and sort filters left empty:
\* "/api/items?offset=..&limit=50&status=&listing_type=&q=..&sort="
itemsUrl(start, q) ==
    <<"/", "a", "p", "i", "/", "i", "t", "e", "m", "s", "?",
      "o", "f", "f", "s", "e", "t", "=">> \o toString(start)
      \o <<"&", "l", "i", "m", "i", "t", "=">> \o toString(pageSize)
      \o <<"&", "s", "t", "a", "t", "u", "s", "=",
           "&", "l", "i", "s", "t", "i", "n", "g", "_", "t", "y", "p", "e", "=",
           "&", "q", "=">> \o q
      \o <<"&", "s", "o", "r", "t", "=">>

ListUrls == {itemsUrl(page * pageSize, q) : page \in 0..(MaxLoads + 1), q \in SearchTexts}

\* items.map(item => item.id).join(','), one item standing for the items
\* of a page
joinedIds(ids) == <<"M">> \o toString(ids.offset)

\* urlWithParams of the GET of loadVisits: "/api/items/visits?ids=.."
visitsUrl(ids) ==
    <<"/", "a", "p", "i", "/", "i", "t", "e", "m", "s", "/",
      "v", "i", "s", "i", "t", "s", "?", "i", "d", "s", "=">> \o joinedIds(ids)

VisitUrls == {visitsUrl([offset |-> page * pageSize]) : page \in 0..(MaxLoads + 1)}

\* isBlacklisted and getTTL of each request URL, computed once
isBlacklistedOf ==
    [u \in Urls \cup TtlUrls \cup ListUrls \cup VisitUrls |-> isBlacklisted(u)]

getTTLOf == [u \in Urls \cup TtlUrls \cup ListUrls \cup VisitUrls |-> getTTL(u)]

\* invalidate that removes the bare key instead of the prefixed one
invalidate_BareKey(store, key) == removeItem(store, key)

invalidate(store, key) == removeItem(store, getCacheKey(key))

\* get that hands out whatever is stored, expired or not
get_IgnoresExpiry(store, key, t) ==
    IF isBlacklistedOf[key] THEN <<Null, store, "blacklist">>
    ELSE LET item == getItem(store, getCacheKey(key)) IN
         IF ~truthy(item) THEN <<Null, store, "miss">>
         ELSE IF ~CanParse(item) THEN <<Null, store, "error">>
         ELSE <<Parse(item).data, store, "hit">>

\* get(key) at time t: <<returned value, store afterwards, what it logs>>
get(store, key, t) ==
    IF isBlacklistedOf[key] THEN <<Null, store, "blacklist">>
    ELSE LET item == getItem(store, getCacheKey(key)) IN
         IF ~truthy(item) THEN <<Null, store, "miss">>
         ELSE IF ~CanParse(item) THEN <<Null, store, "error">>
         ELSE LET entry == Parse(item) IN
              IF t > entry.expiry
              THEN <<Null, invalidate(store, key), "expired">>
              ELSE <<entry.data, store, "hit">>

\* the keys under the prefix, with the prefix removed
getAllCacheKeys(store) ==
    {SubSeq(k, Len(CACHE_PREFIX) + 1, Len(k)) :
        k \in {x \in DOMAIN store : startsWith(x, CACHE_PREFIX)}}

\* RegExp.test for a literal pattern without flags: the text occurs in str
testLiteral(pattern, str) ==
    \E i \in 1..(Len(str) - Len(pattern) + 1) : SubSeq(str, i, i + Len(pattern) - 1) = pattern

\* invalidatePattern(pattern): invalidate(key) for every key under the prefix
\* that the pattern matches
invalidatePattern(store, pattern) ==
    LET hit == {getCacheKey(key) : key \in
                   {k \in getAllCacheKeys(store) : testLiteral(pattern, k)}}
    IN  [x \in DOMAIN store \ hit |-> store[x]]

\* invalidateAll(): invalidate(key) for every key under the prefix
invalidateAll(store) ==
    LET hit == {getCacheKey(key) : key \in getAllCacheKeys(store)}
    IN  [x \in DOMAIN store \ hit |-> store[x]]

\* cleanExpiredEntries() at time t: the store afterwards
cleanExpiredEntries(store, t) ==
    LET doomed ==
          {getCacheKey(key) : key \in
              {k \in getAllCacheKeys(store) :
                  LET item == getItem(store, getCacheKey(k)) IN
                  /\ truthy(item)
                  /\ (CanParse(item) => t > Parse(item).expiry)}}
    IN  [x \in DOMAIN store \ doomed |-> store[x]]

\* the optional argument ttl_seconds: left out, a number, or NaN
Omitted == [passed |-> FALSE, nan |-> FALSE, seconds |-> 0]

Seconds(n) == [passed |-> TRUE, nan |-> FALSE, seconds |-> n]

NaN == [passed |-> TRUE, nan |-> TRUE, seconds |-> 0]

\* the values of ttl_seconds that "||" takes for false: undefined, 0, NaN
falsyTtl(ttl_seconds) ==
    ~ttl_seconds.passed \/ ttl_seconds.nan \/ ttl_seconds.seconds = 0

\* ttl_seconds || this.getTTL(key)
ttlOf(ttl_seconds, key) ==
    IF falsyTtl(ttl_seconds) THEN getTTLOf[key] ELSE ttl_seconds.seconds

\* the answers of Date.now() to one call of set, in the order in which the
\* code reads the clock: for the entry of the first write, in
\* cleanExpiredEntries, for the expiry of the entry of the retry and for its
\* timestamp. The call is synchronous: a later read is the same millisecond
\* or a later one.
ClockReads ==
    {<<now, now + d[1], now + d[1] + d[2], now + d[1] + d[2] + d[3]>> :
        d \in {x \in (0..MaxLapses) \X (0..MaxLapses) \X (0..MaxLapses) :
                  x[1] + x[2] + x[3] \in Lapses}}

\* the clock when set returns: the last read it made
clockAfter(key, clock, first) ==
    IF isBlacklistedOf[key] \/ first # "quota" THEN clock[1] ELSE clock[4]

\* a set that gives up when the first write fails for lack of room
set_NoRetry(store, key, data, ttl_seconds, clock, first, retry) ==
    IF isBlacklistedOf[key] THEN store
    ELSE IF first = "ok"
         THEN setItem(store, getCacheKey(key),
                      Serialized(data, clock[1] + (ttlOf(ttl_seconds, key) * 1000),
                                 clock[1]))
         ELSE store

\* set(key, data, ttl_seconds) with the clock reads clock; first and retry
\* say how localStorage.setItem fares: "ok", "quota" (QuotaExceededError) or
\* "error". The store afterwards.
set(store, key, data, ttl_seconds, clock, first, retry) ==
    IF isBlacklistedOf[key] THEN store
    ELSE LET ttl == ttlOf(ttl_seconds, key)
             now_ == clock[1]
             expiry == now_ + (ttl * 1000)
             serialized == Serialized(data, expiry, now_)
         IN  IF first = "ok" THEN setItem(store, getCacheKey(key), serialized)
             ELSE IF first = "quota"
                  THEN LET cleaned == cleanExpiredEntries(store, clock[2])
                           entry == Serialized(data, clock[3] + (ttl * 1000), clock[4])
                       IN  IF retry = "ok"
                           THEN setItem(cleaned, getCacheKey(key), entry)
                           ELSE cleaned
                  ELSE store

\* what set logs on its way out: nothing for a blacklisted URL, the save, the
\* save after the cleanup, the failed retry, or another error of the write
setLog(key, first, retry) ==
    IF isBlacklistedOf[key] THEN "none"
    ELSE IF first = "ok" THEN "saved"
    ELSE IF first = "quota"
         THEN (IF retry = "ok" THEN "saved after cleanup" ELSE "retry failed")
         ELSE "error"

\* keys of localStorage that other parts of the application own
\* "appwrite_session"
KEY_SESSION ==
    <<"a", "p", "p", "w", "r", "i", "t", "e", "_", "s", "e", "s", "s", "i",
      "o", "n">>

----------------------------------------------------------------------------
(* CachingService: operations *)

\* response bodies; those of this session differ from the leftovers'
Body(n) == [body |-> n]

Bodies == {Body(3)}

\* ttl_seconds arguments of set: omitted, one minute
TtlArguments == {Omitted, Seconds(60)}

\* and those that "||" takes for false
FalsyTtlArguments == {Seconds(0), NaN}

\* how the first localStorage.setItem of a set fares, and the retry
WriteOutcomes ==
    {<<"ok", "ok">>, <<"quota", "ok">>, <<"quota", "quota">>, <<"error", "ok">>}

AuthIdle ==
    /\ env = [kvUrl |-> FALSE, kvToken |-> FALSE, serverless |-> FALSE]
    /\ tokenData = Null
    /\ kvStore = Null
    /\ tokenFile = Null
    /\ issued = 0
    /\ lastSaved = Null
    /\ calls = EmptyBag
    /\ lastReturn = NoReturn
    /\ response = NoResponse

\* what earlier sessions may have left under a key
Leftovers ==
    { Null,
      Serialized(Body(1), 500000, 200000),
      Serialized(Body(2), 1100000, 920000),
      Unparsable,
      EmptyString }

put(store, k, v) == IF v = Null THEN store ELSE setItem(store, k, v)

InitialStores ==
    { put(put(put(setItem(EmptyStore, KEY_SESSION, Unparsable),
                  getCacheKey(URL_ORDERS), o),
              getCacheKey(URL_ITEMS), i),
          getCacheKey(URL_AUTH), a) :
        o \in Leftovers,
        i \in {Null, Serialized(Body(1), 500000, 200000)},
        a \in {Null, Serialized(Body(2), 1100000, 920000)} }

InitCache ==
    /\ AuthIdle
    /\ OrdersIdle
    /\ MoreIdle
    /\ now = 1000000     \* the time at which the page is loaded
    /\ ticks = 0
    /\ localStorage \in InitialStores
    /\ constructed = FALSE
    /\ cacheOut = NoOp
    /\ sets = 0

\* new CachingService()
Construct ==
    /\ ~constructed
    /\ constructed' = TRUE
    /\ localStorage' = cleanExpiredEntries(localStorage, now)
    /\ cacheOut' = [op |-> "construct", key |-> << >>, result |-> Null, log |-> "none"]
    /\ UNCHANGED <<now, ticks, authVars, sets, ordersVars, moreVars>>

Get(key) ==
    /\ constructed
    /\ LET r == get(localStorage, key, now) IN
       /\ localStorage' = r[2]
       /\ cacheOut' = [op |-> "get", key |-> key, result |-> r[1], log |-> r[3]]
    /\ UNCHANGED <<now, ticks, authVars, constructed, sets, ordersVars, moreVars>>

\* the clock moves to t within a call
clockReaches(t) ==
    /\ now' = t
    /\ ticks' = ticks + (t - now)

Set(key, data, ttl_seconds, clock, first, retry) ==
    /\ constructed
    /\ sets < MaxSets
    /\ sets' = sets + 1
    /\ cacheOut' = [op |-> "set", key |-> key, result |-> Null,
                    log |-> setLog(key, first, retry)]
    /\ clockReaches(clockAfter(key, clock, first))
    /\ localStorage' = set(localStorage, key, data, ttl_seconds, clock, first, retry)
    /\ UNCHANGED <<authVars, constructed, ordersVars, moreVars>>

Invalidate(key) ==
    /\ constructed
    /\ localStorage' = invalidate(localStorage, key)
    /\ cacheOut' = [op |-> "invalidate", key |-> key, result |-> Null, log |-> "none"]
    /\ UNCHANGED <<now, ticks, authVars, constructed, sets, ordersVars, moreVars>>

\* the patterns handed to invalidatePattern: /\/items/ and /\/api\//
InvalidatePatterns == {<<"/", "i", "t", "e", "m", "s">>, <<"/", "a", "p", "i", "/">>}

InvalidatePattern(pattern) ==
    /\ constructed
    /\ localStorage' = invalidatePattern(localStorage, pattern)
    /\ cacheOut' = [op |-> "invalidatePattern", key |-> pattern, result |-> Null,
                    log |-> "none"]
    /\ UNCHANGED <<now, ticks, authVars, constructed, sets, ordersVars, moreVars>>

InvalidateAll ==
    /\ constructed
    /\ localStorage' = invalidateAll(localStorage)
    /\ cacheOut' = [op |-> "invalidateAll", key |-> << >>, result |-> Null, log |-> "none"]
    /\ UNCHANGED <<now, ticks, authVars, constructed, sets, ordersVars, moreVars>>

\* cleanExpiredEntries(), called from outside
Cleanup ==
    /\ constructed
    /\ localStorage' = cleanExpiredEntries(localStorage, now)
    /\ cacheOut' = [op |-> "cleanup", key |-> << >>, result |-> Null, log |-> "none"]
    /\ UNCHANGED <<now, ticks, authVars, constructed, sets, ordersVars, moreVars>>

Expiries ==
    {Parse(localStorage[k]).expiry :
        k \in {x \in DOMAIN localStorage : CanParse(localStorage[x])}}

\* instants the clock may jump to: the next millisecond, and the expiry of
\* each stored entry and the millisecond after it
CacheClockTargets ==
    {t \in {now + 1} \cup Expiries \cup {e + 1 : e \in Expiries} : t > now}

TickCache ==
    /\ ticks < MaxTicks
    /\ \E t \in CacheClockTargets : now' = t
    /\ ticks' = ticks + 1
    /\ cacheOut' = NoOp
    /\ UNCHANGED <<authVars, localStorage, constructed, sets, ordersVars, moreVars>>

NextCache ==
    \/ TickCache
    \/ Construct
    \/ \E key \in Urls : Get(key)
    \/ \E key \in Urls, data \in Bodies, ttl \in TtlArguments, clock \in ClockReads,
          w \in WriteOutcomes :
          Set(key, data, ttl, clock, w[1], w[2])
    \/ \E key \in Urls : Invalidate(key)
    \/ \E pattern \in InvalidatePatterns : InvalidatePattern(pattern)
    \/ InvalidateAll
    \/ Cleanup

SpecCache == InitCache /\ [][NextCache]_vars

\* set called for the URLs of the TTL table, with and without ttl_seconds
NextTtl ==
    \/ TickCache
    \/ Construct
    \/ \E key \in TtlUrls, data \in Bodies, ttl \in TtlArguments \cup FalsyTtlArguments,
          clock \in ClockReads, w \in WriteOutcomes :
          Set(key, data, ttl, clock, w[1], w[2])

SpecTtl == InitCache /\ [][NextTtl]_vars

----------------------------------------------------------------------------
(* CachingInterceptor: the first HTTP interceptor of the frontend *)

Methods == {"GET", "POST"}

\* statuses of the answers: 200 and 204 arrive as HttpResponse, 500 as an
\* HttpErrorResponse on the error channel
HttpStatuses == {200, 204, 500}

\* the number 0 as a decoded body
JsZero == [js |-> "0"]

\* decoded bodies: an object, the number 0, and null (an empty body)
HttpBodies == {Body(3), JsZero, Null}

\* values that "if (cachedResponse)" takes for false
FalsyValues == {Null, JsZero}

\* URLs the frontend requests through HttpClient (urlWithParams)
InterceptUrls == {URL_ORDERS, URL_AUTH}

\* a tap that stores every successful response
tapCaches_AnySuccess(status) == status \in 200..299

\* event instanceof HttpResponse && event.status === 200
tapCaches(status) == status \in 200..299 /\ status = 200

\* next.handle(req): the request goes on as it is; tap says whether the
\* caching tap is piped onto the answer
forward(method, url, tap) ==
    /\ pending' = pending (+) SetToBag({[method |-> method, url |-> url, tap |-> tap]})
    /\ httpOut' = [kind |-> "forward", method |-> method, url |-> url, status |-> 0,
                   body |-> Null, fromCache |-> FALSE]

\* intercept(req, next)
Intercept(method, url) ==
    /\ constructed
    /\ BagCardinality(pending) < MaxCalls
    /\ IF method # "GET"
       THEN /\ forward(method, url, FALSE)
            /\ cacheOut' = NoOp
            /\ UNCHANGED localStorage
       ELSE LET r == get(localStorage, url, now)
                cachedResponse == r[1]
            IN  /\ localStorage' = r[2]
                /\ cacheOut' = [op |-> "get", key |-> url, result |-> r[1], log |-> r[3]]
                /\ IF cachedResponse \notin FalsyValues
                   THEN /\ httpOut' = [kind |-> "respond", method |-> method, url |-> url,
                                       status |-> 200, body |-> cachedResponse,
                                       fromCache |-> TRUE]
                        /\ UNCHANGED pending
                   ELSE forward(method, url, TRUE)
    /\ UNCHANGED <<now, ticks, authVars, constructed, sets, ordersVars, searchVars, itemsVars, restVars>>

\* the next handler answers a forwarded request; the tap of a cache miss
\* stores the body
NetResponse(p, status, body, clock, first, retry) ==
    /\ p \in BagToSet(pending)
    /\ pending' = pending (-) SetToBag({p})
    /\ IF p.tap /\ tapCaches(status)
       THEN /\ localStorage' = set(localStorage, p.url, body, Omitted, clock, first, retry)
            /\ cacheOut' = [op |-> "set", key |-> p.url, result |-> Null,
                            log |-> setLog(p.url, first, retry)]
            /\ clockReaches(clockAfter(p.url, clock, first))
       ELSE /\ cacheOut' = NoOp
            /\ UNCHANGED <<localStorage, now, ticks>>
    /\ httpOut' = [kind |-> "respond", method |-> p.method, url |-> p.url,
                   status |-> status, body |-> body, fromCache |-> FALSE]
    /\ UNCHANGED <<authVars, constructed, sets, ordersVars, searchVars, itemsVars, restVars>>

InitIntercept ==
    /\ AuthIdle
    /\ OrdersIdle
    /\ MoreIdle
    /\ now = 1000000
    /\ ticks = 0
    /\ localStorage \in InitialStores
    /\ constructed = FALSE
    /\ cacheOut = NoOp
    /\ sets = 0

NextIntercept ==
    \/ TickCache
    \/ Construct
    \/ \E method \in Methods, url \in InterceptUrls : Intercept(method, url)
    \/ \E p \in BagToSet(pending), status \in HttpStatuses, body \in HttpBodies,
          clock \in ClockReads, w \in WriteOutcomes :
          NetResponse(p, status, body, clock, w[1], w[2])

\* the requests of the frontend through its interceptor
SpecIntercept == InitIntercept /\ [][NextIntercept]_vars

----------------------------------------------------------------------------
(* GET /api/orders: the pagination loop *)

\* limit: 50 of apiParams, and the step used when the page reports none
PAGE_LIMIT == 50

\* the safety limit on offset
SAFETY_LIMIT == 10000

\* "paging && (offset + paging.limit < paging.total)"
hasMoreAfter(off, pg) == pg # Null /\ (off + pg.limit < pg.total)

\* the step of a loop that trusts the reported limit
offsetAfter_ReportedLimit(off, pg) == off + (IF pg # Null THEN pg.limit ELSE PAGE_LIMIT)

\* "offset += paging?.limit || 50"
offsetAfter(off, pg) ==
    off + (IF pg # Null /\ pg.limit # 0 THEN pg.limit ELSE PAGE_LIMIT)

\* number of results on a page
ResultCounts == {0, PAGE_LIMIT}

\* paging objects the search may report for a request at offset off: none, a
\* limit of 0 or 50, and a total of 0, 120, or one that keeps ahead of the
\* offset; limit and total are counts
Pagings(off) ==
    {Null} \cup {[limit |-> l, total |-> t] :
                    l \in {0, PAGE_LIMIT}, t \in {0, 120, off + PAGE_LIMIT + 1000}}

\* the handler has the token and the seller id and enters the loop
OrdersLoopEntry ==
    /\ ordersPc # "loop"
    /\ ordersPc' = "loop"
    /\ offset' = 0
    /\ hasMore' = TRUE
    /\ allOrders' = 0
    /\ paging' = Null
    /\ UNCHANGED <<now, ticks, authVars, cacheVars, moreVars>>

\* the search answered with n results and paging pg: the rest of the loop body
\* and the loop test
OrdersPage(n, pg) ==
    /\ ordersPc = "loop"
    /\ allOrders' = allOrders + n
    /\ paging' = pg
    /\ hasMore' = hasMoreAfter(offset, pg)
    /\ offset' = offsetAfter(offset, pg)
    /\ ordersPc' = IF offset' > SAFETY_LIMIT THEN "done"
                   ELSE IF hasMore' THEN "loop" ELSE "done"
    /\ UNCHANGED <<now, ticks, authVars, cacheVars, moreVars>>

\* the search request failed: axios throws out of the loop into the catch block
OrdersPageFail ==
    /\ ordersPc = "loop"
    /\ ordersPc' = "failed"
    /\ UNCHANGED <<offset, hasMore, allOrders, paging>>
    /\ UNCHANGED <<now, ticks, authVars, cacheVars, moreVars>>

\* the request in flight completes, one way or the other
OrdersResponse ==
    \/ \E n \in ResultCounts, pg \in Pagings(offset) : OrdersPage(n, pg)
    \/ OrdersPageFail

InitOrders ==
    /\ AuthIdle
    /\ CacheIdle
    /\ OrdersIdle
    /\ MoreIdle
    /\ now = 0
    /\ ticks = 0

NextOrders ==
    \/ OrdersLoopEntry
    \/ \E n \in ResultCounts, pg \in Pagings(offset) : OrdersPage(n, pg)
    \/ OrdersPageFail

\* every request the loop sends is answered or fails
SpecOrders == InitOrders /\ [][NextOrders]_vars /\ WF_vars(OrdersResponse)

----------------------------------------------------------------------------
(* GET /api/orders: the handler around the pagination loop. Times are in
   seconds since 2025-01-01T00:00:00Z; the search loop, modelled above page
   by page, is here one step that yields the orders found. *)

\* a query parameter given as a string
Text(text) == [type |-> "string", text |-> text]

\* a query parameter given twice: an array
Repeated == [type |-> "object", text |-> ""]

\* new Date(text).getTime() for the texts the model sends; valid is FALSE
\* where getTime() is NaN
DateOf ==
    [text \in {"garbage", "2025-01-01T00:00:00Z", "2025-01-01T00:00:01Z",
               "2026-01-01T00:00:00Z", "2026-01-01T00:00:01Z"} |->
        CASE text = "garbage" -> [valid |-> FALSE, time |-> 0]
          [] text = "2025-01-01T00:00:00Z" -> [valid |-> TRUE, time |-> 0]
          [] text = "2025-01-01T00:00:01Z" -> [valid |-> TRUE, time |-> 1]
          [] text = "2026-01-01T00:00:00Z" -> [valid |-> TRUE, time |-> 365 * 86400]
          [] text = "2026-01-01T00:00:01Z" -> [valid |-> TRUE, time |-> (365 * 86400) + 1]]

\* values of from and of to
DateParams == {Undefined, Repeated, Text("")} \cup {Text(t) : t \in DOMAIN DateOf}

\* what JavaScript takes for true
given(param) == param.type # "undefined" /\ ~(param.type = "string" /\ param.text = "")

\* the validation without the test of the range
validate_NoRange(from, to) ==
    IF given(from) /\ from.type # "string"
    THEN "from must be a valid ISO 8601 date string"
    ELSE IF given(to) /\ to.type # "string"
    THEN "to must be a valid ISO 8601 date string"
    ELSE IF given(from) /\ given(to)
    THEN LET fromDate == DateOf[from.text]
             toDate == DateOf[to.text]
         IN  IF ~fromDate.valid THEN "from is not a valid date"
             ELSE IF ~toDate.valid THEN "to is not a valid date"
             ELSE IF fromDate.time >= toDate.time THEN "from must be before to"
             ELSE "ok"
    ELSE "ok"

\* the checks of the handler before getToken: the message of the 400 answer,
\* or "ok"; diffDays > 365 is diffTime > 365 days
validate(from, to) ==
    IF given(from) /\ from.type # "string"
    THEN "from must be a valid ISO 8601 date string"
    ELSE IF given(to) /\ to.type # "string"
    THEN "to must be a valid ISO 8601 date string"
    ELSE IF given(from) /\ given(to)
    THEN LET fromDate == DateOf[from.text]
             toDate == DateOf[to.text]
         IN  IF ~fromDate.valid THEN "from is not a valid date"
             ELSE IF ~toDate.valid THEN "to is not a valid date"
             ELSE IF fromDate.time >= toDate.time THEN "from must be before to"
             ELSE IF toDate.time - fromDate.time > 365 * 86400
                  THEN "Maximum date range is 365 days"
                  ELSE "ok"
    ELSE "ok"

\* apiParams as the handler builds it; a filter that is not added is Undefined
buildApiParams(from, to) ==
    [sort |-> "date_desc", limit |-> PAGE_LIMIT,
     from |-> IF given(from) THEN from ELSE Undefined,
     to |-> IF given(to) THEN to ELSE Undefined]

handlerAnswers(status, message, body) ==
    /\ hPc' = "idle"
    /\ ordersOut' = [status |-> status, message |-> message, body |-> body]

\* GET /api/orders arrives: 400 from the validation, else getToken is called
OrdersRequest(from, to) ==
    /\ hPc = "idle"
    /\ ordersQuery' = [from |-> from, to |-> to]
    /\ IF validate(from, to) # "ok"
       THEN handlerAnswers(400, validate(from, to), << >>)
       ELSE hPc' = "token" /\ ordersOut' = NoOrdersOut
    /\ UNCHANGED <<apiParams, orderList, detailedOrders, detailOk>>
    /\ UNCHANGED <<now, ticks, authVars, cacheVars, ordersVars, searchVars, itemsVars, httpVars,
                   listVars>>

\* getToken and users/me answered: apiParams is built and the search is sent
OrdersAuthorized ==
    /\ hPc = "token"
    /\ hPc' = "search"
    /\ apiParams' = buildApiParams(ordersQuery.from, ordersQuery.to)
    /\ ordersOut' = NoOrdersOut
    /\ UNCHANGED <<ordersQuery, orderList, detailedOrders, detailOk>>
    /\ UNCHANGED <<now, ticks, authVars, cacheVars, ordersVars, searchVars, itemsVars, httpVars,
                   listVars>>

\* the message of the catch block's answer: a fixed text with 401, else
\* error.response?.data?.message || error.message
ordersCatchMessage(err) ==
    IF includesNoTokenAvailable(err) THEN "Please authorize the app first by visiting /auth"
    ELSE IF err.data # "" THEN err.data
    ELSE err.message

\* what getToken, users/me and the search may throw
OrdersFailures ==
    {NoTokenError, NoRefreshError} \cup UpstreamFailures \cup {ApiError(st) : st \in {400, 500}}

\* getToken, users/me or a search request failed: the catch block
OrdersHandlerFail(err) ==
    /\ hPc \in {"token", "search"}
    /\ err \in OrdersFailures
    /\ handlerAnswers(ordersCatch(err), ordersCatchMessage(err), << >>)
    /\ UNCHANGED <<ordersQuery, apiParams, orderList, detailedOrders, detailOk>>
    /\ UNCHANGED <<now, ticks, authVars, cacheVars, ordersVars, searchVars, itemsVars, httpVars,
                   listVars>>

Basic(id) == [id |-> id, detailed |-> FALSE]

Detailed(id) == [id |-> id, detailed |-> TRUE]

Pending == [id |-> 0, detailed |-> FALSE]

\* the search loop ended with n orders: one detail request per order is sent,
\* and Promise.all of none resolves at once
OrdersFound(n) ==
    /\ hPc = "search"
    /\ orderList' = [i \in 1..n |-> Basic(i)]
    /\ detailedOrders' = [i \in 1..n |-> Pending]
    /\ detailOk' = [i \in 1..n |-> FALSE]
    /\ IF n = 0
       THEN handlerAnswers(200, "none", << >>)
       ELSE hPc' = "details" /\ ordersOut' = NoOrdersOut
    /\ UNCHANGED <<ordersQuery, apiParams>>
    /\ UNCHANGED <<now, ticks, authVars, cacheVars, ordersVars, searchVars, itemsVars, httpVars,
                   listVars>>

\* an entry that leaves out the order whose detail request failed
entryFor_DropsFailed(order, ok) == IF ok THEN <<Detailed(order.id)>> ELSE << >>

\* what the callback of allOrders.map returns for an order, as the one
\* element of the array at its place
entryFor(order, ok) == IF ok THEN <<Detailed(order.id)>> ELSE <<Basic(order.id)>>

RECURSIVE concatAll(_)
concatAll(seqs) == IF seqs = << >> THEN << >> ELSE Head(seqs) \o concatAll(Tail(seqs))

\* the detail request of the i-th order settles; when it is the last one,
\* Promise.all resolves and the array is sent
OrderDetail(i, ok) ==
    /\ hPc = "details"
    /\ i \in DOMAIN detailedOrders
    /\ detailedOrders[i] = Pending
    /\ detailedOrders' = [detailedOrders EXCEPT ![i] = entryFor(orderList[i], ok)]
    /\ detailOk' = [detailOk EXCEPT ![i] = ok]
    /\ IF \A j \in DOMAIN detailedOrders : detailedOrders'[j] # Pending
       THEN handlerAnswers(200, "none", concatAll(detailedOrders'))
       ELSE hPc' = "details" /\ ordersOut' = NoOrdersOut
    /\ UNCHANGED <<ordersQuery, apiParams, orderList>>
    /\ UNCHANGED <<now, ticks, authVars, cacheVars, ordersVars, searchVars, itemsVars, httpVars,
                   listVars>>

MaxOrders == 2

InitHandler ==
    /\ AuthIdle
    /\ CacheIdle
    /\ OrdersIdle
    /\ MoreIdle
    /\ now = 0
    /\ ticks = 0

NextHandler ==
    \/ \E from \in DateParams, to \in DateParams : OrdersRequest(from, to)
    \/ OrdersAuthorized
    \/ \E err \in OrdersFailures : OrdersHandlerFail(err)
    \/ \E n \in 0..MaxOrders : OrdersFound(n)
    \/ \E i \in 1..MaxOrders, ok \in BOOLEAN : OrderDetail(i, ok)

\* requests to GET /api/orders, one at a time
SpecHandler == InitHandler /\ [][NextHandler]_vars

----------------------------------------------------------------------------
(* Item-id search and detail batching: GET /api/items in search/sort mode and
   GET /api/images/catalog *)

\* batchSize of the id search: the limit of every users/{id}/items/search request
batchSize == 100

\* batchSize of the detail lookup (detailBatchSize in the catalog)
detailBatchSize == 20

Min(a, b) == IF a <= b THEN a ELSE b

\* a slice that takes the element at index end as well
slice_InclusiveEnd(seq, start, end) == SubSeq(seq, start + 1, Min(end + 1, Len(seq)))

\* Array.prototype.slice(start, end), indices from 0, end excluded
slice(seq, start, end) == SubSeq(seq, start + 1, Min(end, Len(seq)))

\* "for (let i = 0; i < itemIds.length; i += batchSize)
\*      batches.push(itemIds.slice(i, i + batchSize))"
RECURSIVE batchesFrom(_, _)
batchesFrom(ids, i) ==
    IF i < Len(ids)
    THEN <<slice(ids, i, i + detailBatchSize)>> \o batchesFrom(ids, i + detailBatchSize)
    ELSE << >>

\* the ids on the page the upstream returns for offset off when it has n to give
PageIds(off, n) == [k \in 1..n |-> off + k]

\* params of the id search request in flight
searchParams == [offset |-> currentOffset, limit |-> batchSize]

\* numbers of ids on a page, and totals the first page may advertise
PageSizes == {0, 7, batchSize}

Totals == {0, 7, 150, 250}

\* the id list of the detail request in flight: the next element of batches,
\* or in the catalog the slice at i = detailBatchSize * (requests answered)
detailBatch ==
    IF searchMode = "items"
    THEN batches[Len(sent) + 1]
    ELSE slice(itemIds, detailBatchSize * Len(sent),
               detailBatchSize * Len(sent) + detailBatchSize)

\* after the id search: GET /api/items answers at once when there are no ids,
\* else builds batches; the catalog enters its for loop
afterSearch(ids) ==
    /\ batches' = IF searchMode = "items" THEN batchesFrom(ids, 0) ELSE << >>
    /\ searchPc' = IF Len(ids) = 0 THEN "done" ELSE "details"

\* a catalog loop that goes on after a short page
catalogLoopEnds_IgnoresShortPage(first, n, count, total) == ~(count < total)

\* GET /api/images/catalog, after a page of n ids that brought the count to
\* count: the loop is over when "allItemIds.length < totalItems" fails, or
\* at the break on a short page, which the first page does not pass through
catalogLoopEnds(first, n, count, total) ==
    ~(count < total) \/ (~first /\ n < batchSize)

\* GET /api/items: the test before the break of "while (true)"
itemsLoopEnds(n, count, total) == n < batchSize \/ count >= total

----------------------------------------------------------------------------
(* The items cache of items.ts and the handlers that use it: GET /api/items
   and POST /api/items. Strings that take part in a cache key are sequences
   of characters; a query parameter is Null when absent. *)

\* 5 * 60 * 1000
CACHE_TTL == 300000

\* limit when the query gives none
DEFAULT_LIMIT == 50

Str(chars) == [str |-> chars]

\* a query parameter that JavaScript takes for false: undefined or ''
falsy(param) == param = Null \/ param.str = << >>

ALL == <<"a", "l", "l">>

Digits == <<"1", "2", "3", "4", "5", "6", "7", "8", "9">>

\* the decimal form of a seller id below ten
String(n) == <<Digits[n]>>

\* getCacheKey of items.ts: `${sellerId}_${status || 'all'}_${listingType || 'all'}`
itemsCacheKey(sellerId, status, listingType) ==
    String(sellerId) \o <<"_">> \o (IF falsy(status) THEN ALL ELSE status.str)
        \o <<"_">> \o (IF falsy(listingType) THEN ALL ELSE listingType.str)

\* getFromCache that keeps an entry until its age reaches twice the TTL
getFromCache_Lenient(cache, sellerId, status, listingType, t) ==
    LET key == itemsCacheKey(sellerId, status, listingType) IN
    IF key \notin DOMAIN cache
    THEN [found |-> FALSE, data |-> << >>, cache |-> cache]
    ELSE IF t - cache[key].timestamp > 2 * CACHE_TTL
         THEN [found |-> FALSE, data |-> << >>,
               cache |-> [k \in DOMAIN cache \ {key} |-> cache[k]]]
         ELSE [found |-> TRUE, data |-> cache[key].data, cache |-> cache]

\* getFromCache at time t: found is FALSE where the code returns null; cache
\* is the map afterwards
getFromCache(cache, sellerId, status, listingType, t) ==
    LET key == itemsCacheKey(sellerId, status, listingType) IN
    IF key \notin DOMAIN cache
    THEN [found |-> FALSE, data |-> << >>, cache |-> cache]
    ELSE LET cached == cache[key]
             age == t - cached.timestamp
         IN  IF age > CACHE_TTL
             THEN [found |-> FALSE, data |-> << >>,
                   cache |-> [k \in DOMAIN cache \ {key} |-> cache[k]]]
             ELSE [found |-> TRUE, data |-> cached.data, cache |-> cache]

\* saveToCache at time t: the map afterwards
saveToCache(cache, sellerId, data, status, listingType, t) ==
    LET key == itemsCacheKey(sellerId, status, listingType) IN
    [k \in DOMAIN cache \cup {key} |->
        IF k = key
        THEN [data |-> data, timestamp |-> t, sellerId |-> sellerId]
        ELSE cache[k]]

\* clearItemsCache(sellerId): the map afterwards
clearItemsCache(cache, sellerId) ==
    LET keysToDelete == {k \in DOMAIN cache : cache[k].sellerId = sellerId} IN
    [k \in DOMAIN cache \ keysToDelete |-> cache[k]]

\* the k-th item of a seller, as the marketplace describes it
Item(k) ==
    [id |-> k, title |-> IF k % 2 = 1 THEN "a" ELSE "b", price |-> (k * 2) % 7]

\* the items of a seller who has n of them, in the order of the marketplace
ItemsOf(n) == [k \in 1..n |-> Item(k)]

\* the comparator of the sort, for the orders modelled
compare(sortBy, a, b) ==
    CASE sortBy = "price_asc" -> a.price - b.price
      [] sortBy = "price_desc" -> b.price - a.price
      [] OTHER -> 0

\* Array.prototype.sort with the comparator: a stable sort
RECURSIVE insertSorted(_, _, _)
insertSorted(sortBy, sorted, item) ==
    IF sorted = << >> THEN <<item>>
    ELSE LET last == sorted[Len(sorted)] IN
         IF compare(sortBy, last, item) <= 0
         THEN Append(sorted, item)
         ELSE Append(insertSorted(sortBy, SubSeq(sorted, 1, Len(sorted) - 1), item), last)

RECURSIVE sort(_, _)
sort(list, sortBy) ==
    IF list = << >> THEN << >>
    ELSE insertSorted(sortBy, sort(SubSeq(list, 1, Len(list) - 1), sortBy), list[Len(list)])

\* item.title.toLowerCase().includes(searchQuery), for titles and queries of
\* one letter; the numeric ids of the model contain no letter
RECURSIVE filter(_, _)
filter(list, searchQuery) ==
    IF list = << >> THEN << >>
    ELSE (IF Head(list).title = searchQuery THEN <<Head(list)>> ELSE << >>)
            \o filter(Tail(list), searchQuery)

\* the query strings of GET /api/items that the model sends
ItemQueries ==
    {[status |-> Null, listingType |-> Null, q |-> "", sortBy |-> "", offset |-> 1],
     [status |-> Null, listingType |-> Null, q |-> "", sortBy |-> "price_desc", offset |-> 0],
     [status |-> Str(<< >>), listingType |-> Null, q |-> "a", sortBy |-> "", offset |-> 1],
     [status |-> Str(<<"a", "c", "t", "i", "v", "e">>), listingType |-> Str(<<"g", "o", "l", "d">>),
      q |-> "a", sortBy |-> "price_desc", offset |-> 0]}

\* searchQuery || sortBy
searchOrSort(query) == query.q # "" \/ query.sortBy # ""

\* steps 5 to 7 of the handler, and the same steps on a cache hit: filter,
\* sort, paginate
filtered(list, query) == IF query.q # "" THEN filter(list, query.q) ELSE list

sortedItems(list, query) ==
    IF query.sortBy # "" THEN sort(filtered(list, query), query.sortBy)
    ELSE filtered(list, query)

\* the array the handler got (from the cache, or allItems) after the handler
\* ran: sort works in place when no filter made a copy
afterSort(list, query) ==
    IF query.sortBy # "" /\ query.q = "" THEN sort(list, query.sortBy) ELSE list

paginated(list, query) ==
    slice(sortedItems(list, query), query.offset, query.offset + DEFAULT_LIMIT)

withData(cache, key, data) ==
    [k \in DOMAIN cache |-> IF k = key THEN [cache[k] EXCEPT !.data = data] ELSE cache[k]]

itemsRespond(r, out) ==
    /\ itemReqs' = itemReqs \ {r}
    /\ itemsOut' = out

itemsAwait(r, next) ==
    /\ itemReqs' = (itemReqs \ {r}) \cup {next}
    /\ itemsOut' = NoItemsOut

\* GET /api/items arrives; getToken and the users/me request are under way
ItemsGetStart(seller, query) ==
    /\ Cardinality(itemReqs) < MaxCalls
    /\ \A r \in itemReqs : r.kind # "get"
    /\ itemReqs' = itemReqs \cup
          {[kind |-> "get", pc |-> "usersMe", seller |-> seller, query |-> query,
            ids |-> << >>, itemId |-> 0, total |-> 0]}
    /\ itemsOut' = NoItemsOut
    /\ UNCHANGED <<itemsCache, catalog, acked>>
    /\ UNCHANGED <<now, ticks, authVars, cacheVars, ordersVars, searchVars, httpVars, restVars>>

\* users/me answered: the cache check, the response on a hit, else the id
\* search is sent
ItemsGetUser(r) ==
    /\ r \in itemReqs /\ r.kind = "get" /\ r.pc = "usersMe"
    /\ IF searchOrSort(r.query)
       THEN LET g == getFromCache(itemsCache, r.seller, r.query.status,
                                  r.query.listingType, now)
                key == itemsCacheKey(r.seller, r.query.status, r.query.listingType)
            IN  IF g.found
                THEN /\ itemsCache' = withData(g.cache, key, afterSort(g.data, r.query))
                     /\ itemsRespond(r, [kind |-> "get", status |-> 200, cached |-> TRUE,
                                         seller |-> r.seller,
                                         items |-> paginated(g.data, r.query),
                                         cachedItems |-> g.data,
                                         total |-> Len(sortedItems(g.data, r.query))])
                ELSE /\ itemsCache' = g.cache
                     /\ itemsAwait(r, [r EXCEPT !.pc = "search"])
       ELSE /\ itemsAwait(r, [r EXCEPT !.pc = "search"])
            /\ UNCHANGED itemsCache
    /\ UNCHANGED <<catalog, acked>>
    /\ UNCHANGED <<now, ticks, authVars, cacheVars, ordersVars, searchVars, httpVars, restVars>>

\* the id search answered (in search/sort mode: all its pages): an empty list
\* is answered at once, else the detail requests are sent; total is
\* itemsResponse.data.paging.total, which the response carries in plain mode
ItemsGetSearch(r) ==
    /\ r \in itemReqs /\ r.kind = "get" /\ r.pc = "search"
    /\ LET all == [k \in 1..catalog[r.seller] |-> k]
           ids == IF searchOrSort(r.query) THEN all
                  ELSE slice(all, r.query.offset, r.query.offset + DEFAULT_LIMIT)
       IN  IF Len(ids) = 0
           THEN itemsRespond(r, [kind |-> "get", status |-> 200, cached |-> FALSE,
                                 seller |-> r.seller, items |-> << >>,
                                 cachedItems |-> << >>, total |-> catalog[r.seller]])
           ELSE itemsAwait(r, [r EXCEPT !.pc = "details", !.ids = ids,
                                        !.total = catalog[r.seller]])
    /\ UNCHANGED <<itemsCache, catalog, acked>>
    /\ UNCHANGED <<now, ticks, authVars, cacheVars, ordersVars, searchVars, httpVars, restVars>>

\* the detail requests answered: saveToCache in search/sort mode, then the
\* filter, the sort (in place on allItems when nothing was filtered) and the
\* response
ItemsGetDetails(r) ==
    /\ r \in itemReqs /\ r.kind = "get" /\ r.pc = "details"
    /\ LET allItems == [i \in 1..Len(r.ids) |-> Item(r.ids[i])]
           key == itemsCacheKey(r.seller, r.query.status, r.query.listingType)
       IN  /\ itemsCache' =
                 IF searchOrSort(r.query)
                 THEN withData(saveToCache(itemsCache, r.seller, allItems, r.query.status,
                                           r.query.listingType, now),
                               key, afterSort(allItems, r.query))
                 ELSE itemsCache
           /\ itemsRespond(r, [kind |-> "get", status |-> 200, cached |-> FALSE,
                               seller |-> r.seller,
                               items |-> IF searchOrSort(r.query)
                                         THEN paginated(allItems, r.query)
                                         ELSE sortedItems(allItems, r.query),
                               cachedItems |-> << >>,
                               total |-> IF searchOrSort(r.query)
                                         THEN Len(sortedItems(allItems, r.query))
                                         ELSE r.total])
    /\ UNCHANGED <<catalog, acked>>
    /\ UNCHANGED <<now, ticks, authVars, cacheVars, ordersVars, searchVars, httpVars, restVars>>

\* POST /api/items arrives; the item is being created at the marketplace
ItemsPostStart(seller, description) ==
    /\ Cardinality(itemReqs) < MaxCalls
    /\ \A r \in itemReqs : r.kind # "post"
    /\ catalog[seller] < Listed + MaxCreated
    /\ itemReqs' = itemReqs \cup
          {[kind |-> "post", pc |-> "create", seller |-> seller,
            query |-> [description |-> description], ids |-> << >>, itemId |-> 0, total |-> 0]}
    /\ itemsOut' = NoItemsOut
    /\ UNCHANGED <<itemsCache, catalog, acked>>
    /\ UNCHANGED <<now, ticks, authVars, cacheVars, ordersVars, searchVars, httpVars, restVars>>

\* the marketplace created the item; users/me is requested
ItemsPostCreated(r) ==
    /\ r \in itemReqs /\ r.kind = "post" /\ r.pc = "create"
    /\ catalog' = [catalog EXCEPT ![r.seller] = @ + 1]
    /\ itemsAwait(r, [r EXCEPT !.pc = "usersMe", !.itemId = catalog[r.seller] + 1])
    /\ UNCHANGED <<itemsCache, acked>>
    /\ UNCHANGED <<now, ticks, authVars, cacheVars, ordersVars, searchVars, httpVars, restVars>>

created(r) ==
    /\ itemsRespond(r, [kind |-> "post", status |-> 201, cached |-> FALSE,
                        seller |-> r.seller, items |-> <<Item(r.itemId)>>,
                        cachedItems |-> << >>, total |-> 0])
    /\ acked' = [acked EXCEPT ![r.seller] = IF r.itemId > @ THEN r.itemId ELSE @]

\* users/me answered: clearItemsCache, then the description is sent if there
\* is one, else 201
ItemsPostUser(r) ==
    /\ r \in itemReqs /\ r.kind = "post" /\ r.pc = "usersMe"
    /\ itemsCache' = clearItemsCache(itemsCache, r.seller)
    /\ IF r.query.description
       THEN itemsAwait(r, [r EXCEPT !.pc = "description"]) /\ UNCHANGED acked
       ELSE created(r)
    /\ UNCHANGED catalog
    /\ UNCHANGED <<now, ticks, authVars, cacheVars, ordersVars, searchVars, httpVars, restVars>>

\* the description request settled; its failure is logged and 201 is sent
\* all the same
ItemsPostDescription(r) ==
    /\ r \in itemReqs /\ r.kind = "post" /\ r.pc = "description"
    /\ created(r)
    /\ UNCHANGED <<itemsCache, catalog>>
    /\ UNCHANGED <<now, ticks, authVars, cacheVars, ordersVars, searchVars, httpVars, restVars>>

\* the errors that can reach the catch block of a request: getToken is
\* awaited before the first marketplace request of either handler
ItemFailures(r) ==
    IF (r.kind = "get" /\ r.pc = "usersMe") \/ (r.kind = "post" /\ r.pc = "create")
    THEN {NoTokenError} \cup UpstreamFailures
    ELSE UpstreamFailures

\* getToken or a request of the handler (other than the description) failed:
\* the catch block of the handler answers
ItemsFail(r, err) ==
    /\ r \in itemReqs /\ r.pc # "description"
    /\ err \in ItemFailures(r)
    /\ itemsRespond(r, [kind |-> r.kind,
                        status |-> IF r.kind = "post" THEN itemsCreateCatch(err)
                                   ELSE itemsListCatch(err),
                        cached |-> FALSE,
                        seller |-> r.seller, items |-> << >>, cachedItems |-> << >>,
                        total |-> 0])
    /\ UNCHANGED <<itemsCache, catalog, acked>>
    /\ UNCHANGED <<now, ticks, authVars, cacheVars, ordersVars, searchVars, httpVars, restVars>>

\* the times at which a cache entry reaches its TTL and passes it
ItemsClockTargets ==
    {t \in {itemsCache[k].timestamp + CACHE_TTL : k \in DOMAIN itemsCache}
             \cup {itemsCache[k].timestamp + CACHE_TTL + 1 : k \in DOMAIN itemsCache}
        : t > now}

ItemsTick ==
    /\ ticks < MaxTicks
    /\ \E t \in ItemsClockTargets : now' = t
    /\ ticks' = ticks + 1
    /\ itemsOut' = NoItemsOut
    /\ UNCHANGED <<itemsCache, catalog, acked, itemReqs>>
    /\ UNCHANGED <<authVars, cacheVars, ordersVars, searchVars, httpVars, restVars>>

\* the account the token holder is authorized for; the other seller was
\* served before the account changed
Account == 2

\* the map at the start: empty, or with what a sorted listing of the other
\* seller left in it
InitialItemsCaches ==
    {<< >>,
     saveToCache(<< >>, 1, afterSort(ItemsOf(Listed), [q |-> "", sortBy |-> "price_desc"]),
                 Null, Null, 0)}

InitItems ==
    /\ AuthIdle
    /\ CacheIdle
    /\ OrdersIdle
    /\ SearchIdle
    /\ HttpIdle
    /\ RestIdle
    /\ itemsCache \in InitialItemsCaches
    /\ catalog = [s \in Sellers |-> Listed]
    /\ acked = [s \in Sellers |-> 0]
    /\ itemReqs = {}
    /\ itemsOut = NoItemsOut
    /\ now = 0
    /\ ticks = 0

NextItems ==
    \/ ItemsTick
    \/ \E query \in ItemQueries : ItemsGetStart(Account, query)
    \/ \E r \in itemReqs : ItemsGetUser(r)
    \/ \E r \in itemReqs : ItemsGetSearch(r)
    \/ \E r \in itemReqs : ItemsGetDetails(r)
    \/ \E description \in BOOLEAN : ItemsPostStart(Account, description)
    \/ \E r \in itemReqs : ItemsPostCreated(r)
    \/ \E r \in itemReqs : ItemsPostUser(r)
    \/ \E r \in itemReqs : ItemsPostDescription(r)
    \/ \E r \in itemReqs, err \in {NoTokenError} \cup UpstreamFailures : ItemsFail(r, err)

\* concurrent requests to /api/items
SpecItems == InitItems /\ [][NextItems]_vars

----------------------------------------------------------------------------
(* Item-id search and detail batching: the handlers *)

\* the query string of the GET /api/items of this section: a search text,
\* no sort order
SearchQuery ==
    [status |-> Str(<< >>), listingType |-> Null, q |-> "a", sortBy |-> "", offset |-> 1]

\* the handler has the token and the seller id; GET /api/items has looked
\* into itemsCache and found nothing to answer with; the first id search is
\* sent
SearchStart(mode) ==
    /\ searchPc \in {"idle", "done", "failed"}
    /\ LET g == getFromCache(itemsCache, Account, SearchQuery.status,
                             SearchQuery.listingType, now) IN
       IF mode = "items"
       THEN ~g.found /\ itemsCache' = g.cache
       ELSE UNCHANGED itemsCache
    /\ searchPc' = "search"
    /\ searchMode' = mode
    /\ currentOffset' = 0
    /\ itemIds' = << >>
    /\ totalItems' = 0
    /\ firstBatch' = TRUE
    /\ batches' = << >>
    /\ sent' = << >>
    /\ pages' = 0
    /\ UNCHANGED <<catalog, acked, itemReqs, itemsOut>>
    /\ UNCHANGED <<now, ticks, authVars, cacheVars, ordersVars, httpVars, restVars>>

\* GET /api/items: a page of n ids arrives, advertising total
ItemsSearchPage(n, total) ==
    /\ searchPc = "search"
    /\ searchMode = "items"
    /\ itemIds' = itemIds \o PageIds(currentOffset, n)
    /\ totalItems' = IF firstBatch THEN total ELSE totalItems
    /\ firstBatch' = FALSE
    /\ pages' = pages + 1
    /\ IF itemsLoopEnds(n, Len(itemIds'), totalItems')
       THEN /\ afterSearch(itemIds')
            /\ UNCHANGED currentOffset
       ELSE /\ currentOffset' = currentOffset + batchSize
            /\ UNCHANGED <<searchPc, batches>>
    /\ UNCHANGED <<searchMode, sent>>
    /\ UNCHANGED <<now, ticks, authVars, cacheVars, ordersVars, itemsVars, httpVars, restVars>>

\* GET /api/images/catalog: the first page, requested before the loop, or a
\* page requested inside "while (allItemIds.length < totalItems)"
CatalogSearchPage(n, total) ==
    /\ searchPc = "search"
    /\ searchMode = "catalog"
    /\ itemIds' = itemIds \o PageIds(currentOffset, n)
    /\ totalItems' = IF firstBatch THEN total ELSE totalItems
    /\ firstBatch' = FALSE
    /\ pages' = pages + 1
    /\ currentOffset' = IF firstBatch \/ n >= batchSize
                        THEN currentOffset + batchSize
                        ELSE currentOffset
    /\ IF catalogLoopEnds(firstBatch, n, Len(itemIds'), totalItems')
       THEN afterSearch(itemIds')
       ELSE UNCHANGED <<searchPc, batches>>
    /\ UNCHANGED <<searchMode, sent>>
    /\ UNCHANGED <<now, ticks, authVars, cacheVars, ordersVars, itemsVars, httpVars, restVars>>

\* the detail request in flight is answered; the next batch is requested,
\* or, after the last, GET /api/items saves the items in itemsCache and goes
\* on to filter and sort them (the sort, in place when nothing was filtered)
DetailsResponse ==
    /\ searchPc = "details"
    /\ sent' = Append(sent, detailBatch)
    /\ searchPc' = IF searchMode = "items"
                   THEN IF Len(sent') < Len(batches) THEN "details" ELSE "done"
                   ELSE IF detailBatchSize * Len(sent') < Len(itemIds)
                        THEN "details" ELSE "done"
    /\ itemsCache' =
          IF searchMode = "items" /\ ~(Len(sent') < Len(batches))
                /\ searchOrSort(SearchQuery)
          THEN LET allItems == [i \in 1..Len(itemIds) |-> Item(itemIds[i])]
                   key == itemsCacheKey(Account, SearchQuery.status,
                                        SearchQuery.listingType)
               IN  withData(saveToCache(itemsCache, Account, allItems, SearchQuery.status,
                                        SearchQuery.listingType, now),
                            key, afterSort(allItems, SearchQuery))
          ELSE itemsCache
    /\ UNCHANGED <<searchMode, currentOffset, itemIds, totalItems, firstBatch, batches, pages>>
    /\ UNCHANGED <<catalog, acked, itemReqs, itemsOut>>
    /\ UNCHANGED <<now, ticks, authVars, cacheVars, ordersVars, httpVars, restVars>>

\* a request of the handler fails: the catch block answers
SearchFail ==
    /\ searchPc \in {"search", "details"}
    /\ searchPc' = "failed"
    /\ UNCHANGED <<searchMode, currentOffset, itemIds, totalItems, firstBatch, batches, sent,
                   pages>>
    /\ UNCHANGED <<now, ticks, authVars, cacheVars, ordersVars, itemsVars, httpVars, restVars>>

\* a request in flight completes, one way or the other
SearchResponse ==
    \/ \E n \in PageSizes, total \in Totals : ItemsSearchPage(n, total)
    \/ \E n \in PageSizes, total \in Totals : CatalogSearchPage(n, total)
    \/ DetailsResponse
    \/ SearchFail

InitSearch ==
    /\ AuthIdle
    /\ CacheIdle
    /\ OrdersIdle
    /\ MoreIdle
    /\ now = 0
    /\ ticks = 0

NextSearch ==
    \/ ItemsTick
    \/ \E mode \in {"items", "catalog"} : SearchStart(mode)
    \/ \E n \in PageSizes, total \in Totals : ItemsSearchPage(n, total)
    \/ \E n \in PageSizes, total \in Totals : CatalogSearchPage(n, total)
    \/ DetailsResponse
    \/ SearchFail

\* every request the handlers send is answered or fails
SpecSearch == InitSearch /\ [][NextSearch]_vars /\ WF_vars(SearchResponse)

----------------------------------------------------------------------------
(* Route handlers: getToken, the requests to the marketplace, the response.
   GET /api/items is asked without a search text or a sort order here, so it
   neither reads nor writes itemsCache; SpecItems has the other requests. *)

\* the request in flight of a handler past getToken
requestOf(cr) == upstreamRequests(cr.route)[cr.step]

\* the handler of cr goes on after the answer to its request in flight: to
\* its next request, or to its response
handlerGoesOn(cr) ==
    IF cr.step < Len(upstreamRequests(cr.route))
    THEN /\ calls' = (calls (-) SetToBag({cr})) (+) SetToBag({[cr EXCEPT !.step = @ + 1]})
         /\ response' = NoResponse
    ELSE /\ calls' = calls (-) SetToBag({cr})
         /\ response' = [route |-> cr.route, status |-> routeSuccess(cr.route),
                         error |-> Null, from |-> "upstream"]

\* the marketplace answered the request in flight of a handler; how: the
\* handler goes on ("go"), has the request of its loop or of its Promise.all
\* to send or to wait for again ("again"), or responds at once, there being
\* no results to ask the details of and no description to add ("empty")
UpstreamOk(cr, how) ==
    /\ cr \in InFlight("upstream")
    /\ CASE how = "again" ->
               /\ sentAgain(cr.route, requestOf(cr))
               /\ response' = NoResponse
               /\ UNCHANGED calls
         [] how = "empty" ->
               /\ endsEarly(cr.route, requestOf(cr))
               /\ calls' = calls (-) SetToBag({cr})
               /\ response' = [route |-> cr.route, status |-> routeSuccess(cr.route),
                               error |-> Null, from |-> "upstream"]
         [] how = "go" -> handlerGoesOn(cr)
    /\ itemsCache' = IF /\ how \in {"go", "empty"}
                        /\ <<cr.route, requestOf(cr)>> = <<"itemsCreate", "users/me">>
                     THEN clearItemsCache(itemsCache, Account)
                     ELSE itemsCache
    /\ lastReturn' = NoReturn
    /\ UNCHANGED <<now, ticks, env, tokenData, kvStore, tokenFile, issued>>
    /\ UNCHANGED lastSaved
    /\ UNCHANGED <<catalog, acked, itemReqs, itemsOut>>
    /\ UNCHANGED <<cacheVars, ordersVars, searchVars, httpVars, restVars>>

\* the marketplace refused the request in flight of a handler, or the
\* request failed. A request with a try/catch of its own: the handler goes
\* on ("go"), or keeps waiting for the other requests of the Promise.all
\* ("again"); any other request: the catch block of the handler responds
UpstreamFail(cr, err, how) ==
    /\ cr \in InFlight("upstream")
    /\ IF failureSwallowed(cr.route, requestOf(cr))
       THEN IF how = "again"
            THEN /\ sentAgain(cr.route, requestOf(cr))
                 /\ response' = NoResponse
                 /\ UNCHANGED calls
            ELSE handlerGoesOn(cr)
       ELSE /\ how = "go"
            /\ calls' = calls (-) SetToBag({cr})
            /\ response' = [route |-> cr.route, status |-> routeCatch(cr.route, err),
                            error |-> err, from |-> "upstream"]
    /\ lastReturn' = NoReturn
    /\ UNCHANGED <<now, ticks, env, tokenData, kvStore, tokenFile, issued>>
    /\ UNCHANGED lastSaved
    /\ UNCHANGED <<cacheVars, ordersVars, moreVars>>

NextRoutes ==
    \/ Tick
    \/ \E route \in Routes : RouteRequest(route)
    \/ DebugTokenRequest
    \/ \E code \in Queries : CallbackRequest(code)
    \/ \E cr \in BagToSet(calls), ok \in BOOLEAN : KvGetResponse(cr, ok)
    \/ \E cr \in BagToSet(calls), e \in ExpiresInChoices, r \in BOOLEAN, f \in BOOLEAN :
          PostOk(cr, e, r, f)
    \/ \E cr \in BagToSet(calls), st \in AuthFailures : PostFail(cr, st)
    \/ \E cr \in BagToSet(calls), ok \in BOOLEAN : KvSetResponse(cr, ok)
    \/ \E cr \in BagToSet(calls), how \in {"go", "again", "empty"} : UpstreamOk(cr, how)
    \/ \E cr \in BagToSet(calls), err \in UpstreamFailures, how \in {"go", "again"} :
          UpstreamFail(cr, err, how)

\* route handlers, one request at a time
SpecRoutes == InitAuth /\ [][NextRoutes]_vars

----------------------------------------------------------------------------
(* PublicationsListComponent: the list of publications of the frontend. Its
   requests pass through the CachingInterceptor. The items of one page of
   the list are one record, which carries the visit count that loadVisits
   adds to them. An answer that the interceptor takes from the cache is
   delivered within the call to subscribe, so a step may read the cache
   twice: cacheOut is then the later operation. The handler of GET /items
   in the backend (items.ts) takes a step for each of its awaits, apart from
   the step in which the component receives its answer. The handler of GET
   /items/visits reads and changes no state, and its answer carries the
   count the marketplace reports or the 0 the handler puts for a failed
   request, so the handling and the receipt of that answer are one step. *)

\* status and listing_type as the component sends them: ''
NoFilter == Str(<< >>)

\* a request of the component the backend has not handled yet
NotHandled == [handled |-> FALSE]

\* the answer 500 of the handler
Failed == [handled |-> TRUE]

\* what the marketplace holds for the seller now
listingNow == [version |-> relisted, total |-> ListTotal + relisted]

\* item.visits before loadVisits has answered
NoVisits == [js |-> "undefined"]

\* a visit count the marketplace reports
SomeVisits == [js |-> "3"]

\* the answer of the handler from the items it has (fetched, or taken from
\* itemsCache): items and paging of the page at start. Every title contains
\* the search texts used, so the filter keeps every item.
pageOf(listing, q, start) ==
    [q |-> q, offset |-> start, version |-> listing.version, total |-> listing.total]

\* response.items is empty: the request is for an offset past the last item
noItems(body) == body.offset >= body.total

\* the ids of the items of a page, by which the visit counts are asked for
\* and matched: the items at an offset, the same for every search text and
\* before and after a relist
idsOf(page) == [offset |-> page.offset]

\* the counts the marketplace may report for an item, or that the handler
\* puts in its answer when the request for the item fails: 0
VisitCounts == {JsZero, SomeVisits}

\* the answer of GET /items/visits for the items ids: a count for each
visitsFor(ids, count) == [ids |-> ids, count |-> count]

\* the next callback of loadVisits: "visits: visitsData[item.id] || 0" for
\* every item shown
withVisits(shown, visitsData) ==
    [i \in DOMAIN shown |->
        [shown[i] EXCEPT !.visits = IF idsOf(shown[i]) = visitsData.ids
                                    THEN visitsData.count ELSE JsZero]]

\* the error callback of loadVisits: "visits: 0" for every item shown
withoutVisits(shown) == [i \in DOMAIN shown |-> [shown[i] EXCEPT !.visits = JsZero]]

\* loadVisits(response.items) for the items of page, with the cache as the
\* step has left it (store, last operation op), the list as the next
\* callback has set it (shown) and the clock at t when the step read it
\* last; the get of the interceptor for the visits request reads the clock
\* again, lapse milliseconds later
loadVisits(page, store, op, shown, t, lapse) ==
    IF noItems(page)
    THEN /\ lapse = 0
         /\ localStorage' = store
         /\ cacheOut' = op
         /\ dataSource' = shown
         /\ clockReaches(t)
         /\ UNCHANGED <<isLoadingVisits, visitReqs>>
    ELSE LET url == visitsUrl(idsOf(page))
             r == get(store, url, t + lapse)
             cachedResponse == r[1]
         IN  /\ (t + lapse) - now \in Lapses
             /\ clockReaches(t + lapse)
             /\ localStorage' = r[2]
             /\ cacheOut' = [op |-> "get", key |-> url, result |-> r[1], log |-> r[3]]
             /\ IF cachedResponse \notin FalsyValues
                THEN /\ dataSource' = withVisits(shown, cachedResponse)
                     /\ isLoadingVisits' = FALSE
                     /\ UNCHANGED visitReqs
                ELSE /\ dataSource' = shown
                     /\ isLoadingVisits' = TRUE
                     /\ visitReqs' = visitReqs (+) SetToBag({idsOf(page)})

\* the next callback of the subscription: the response of request req, with
\* the list as it is (shown) when the response arrives, the clock last read
\* at t
onNext(req, body, shown, store, op, t, lapse) ==
    LET page == [q |-> body.q, offset |-> body.offset, version |-> body.version,
                 total |-> body.total, visits |-> NoVisits]
        items == IF noItems(body) THEN << >> ELSE <<page>>
    IN  /\ listTotalItems' = body.total
        /\ listHasMore' = (body.offset + pageSize < body.total)
        /\ isLoading' = FALSE
        /\ isLoadingMore' = FALSE
        /\ loadVisits(page, store, op, IF req.reset THEN items ELSE shown \o items, t, lapse)

\* loadPublications(reset) with the search text q and, for reset = false, the
\* page that loadMore has advanced to. The interceptor answers from the
\* cache within the call to subscribe, or forwards the request. The get for
\* the page reads the clock at now; on a hit the get for the visits reads it
\* again, lapse milliseconds later.
loadPublications(reset, q, page, lapse) ==
    LET shown == IF reset THEN << >> ELSE dataSource
        pg == IF reset THEN 0 ELSE page
        url == itemsUrl(pg * pageSize, q)
        r == get(localStorage, url, now)
        cachedResponse == r[1]
        op == [op |-> "get", key |-> url, result |-> r[1], log |-> r[3]]
        req == [id |-> loads + 1, reset |-> reset, url |-> url, q |-> q,
                offset |-> pg * pageSize, pc |-> "getToken", listing |-> Null,
                got |-> 0, batch |-> 0, answer |-> NotHandled]
    IN  /\ loads' = loads + 1
        /\ listSearchQuery' = q
        /\ currentPage' = pg
        /\ IF cachedResponse \notin FalsyValues
           THEN /\ onNext(req, cachedResponse, shown, r[2], op, now, lapse)
                /\ UNCHANGED listReqs
           ELSE /\ lapse = 0
                /\ localStorage' = r[2]
                /\ cacheOut' = op
                /\ dataSource' = shown
                /\ isLoading' = reset
                /\ isLoadingMore' = ~reset
                /\ listReqs' = listReqs \cup {req}
                /\ UNCHANGED <<listTotalItems, listHasMore, isLoadingVisits, visitReqs,
                               now, ticks>>

\* ngOnInit, onSearch, clearSearch: loadPublications(true) with the search
\* text as it is then
ListSearch(q, lapse) ==
    /\ loads < MaxLoads
    /\ loadPublications(TRUE, q, 0, lapse)
    /\ UNCHANGED <<relisted, relistReqs>>
    /\ UNCHANGED <<authVars, constructed, sets, ordersVars, searchVars, itemsVars,
                   httpVars, handlerVars>>

\* loadMore()
ListLoadMore(lapse) ==
    /\ loads < MaxLoads
    /\ ~(~listHasMore \/ isLoadingMore)
    /\ loadPublications(FALSE, listSearchQuery, currentPage + 1, lapse)
    /\ UNCHANGED <<relisted, relistReqs>>
    /\ UNCHANGED <<authVars, constructed, sets, ordersVars, searchVars, itemsVars,
                   httpVars, handlerVars>>

\* the ids that a search request for limit ids from offset off returns
\* when the marketplace holds total
idsFound(off, limit, total) == IF total > off THEN Min(limit, total - off) ELSE 0

\* the detail requests for n ids: one for every batch of up to 20
detailRequests(n) == (n + detailBatchSize - 1) \div detailBatchSize

\* router.get('/') of items.ts handles a GET /items of the component, one
\* await at a time: req.pc names the await the handler is at, and the step
\* is its return (ok) or its failure, after which the handler runs on to its
\* next await or to its response. After users/me, a request with a search
\* text is answered from itemsCache when the entry is young enough. A
\* request without a search text asks for the ids of its page by one search
\* request; one with a search text asks for all ids, 100 by request, until
\* a request returns fewer or the ids reach the total that the first answer
\* gave (req.listing is the first answer, req.got the ids so far). No ids:
\* the handler answers at once. The details are asked for 20 ids by request
\* (req.batch counts the answers); after the last a request with a search
\* text stores its list in itemsCache, and the answer has the items found,
\* as old as the first search answer.
ItemsHandled(req, ok) ==
    /\ req \in listReqs
    /\ req.answer = NotHandled
    /\ LET searching == req.q # << >>
           goesOn(next) == listReqs' = (listReqs \ {req}) \cup {next}
           answers(body) == goesOn([req EXCEPT !.pc = "answered", !.answer = body])
       IN  IF ~ok
           THEN answers(Failed) /\ UNCHANGED itemsCache
           ELSE CASE req.pc = "getToken" ->
                       /\ goesOn([req EXCEPT !.pc = "usersMe"])
                       /\ UNCHANGED itemsCache
                  [] req.pc = "usersMe" ->
                       IF searching
                       THEN LET c == getFromCache(itemsCache, Account, NoFilter, NoFilter,
                                                  now) IN
                            /\ itemsCache' = c.cache
                            /\ IF c.found
                               THEN answers(pageOf(c.data, req.q, req.offset))
                               ELSE goesOn([req EXCEPT !.pc = "search"])
                       ELSE /\ goesOn([req EXCEPT !.pc = "search"])
                            /\ UNCHANGED itemsCache
                  [] req.pc = "search" ->
                       LET first == IF req.listing = Null THEN listingNow ELSE req.listing
                           n == IF searching
                                THEN idsFound(req.got, batchSize, listingNow.total)
                                ELSE idsFound(req.offset, pageSize, listingNow.total)
                           got == req.got + n
                       IN  /\ IF searching /\ ~itemsLoopEnds(n, got, first.total)
                              THEN goesOn([req EXCEPT !.listing = first, !.got = got])
                              ELSE IF got = 0
                              THEN answers(pageOf(listingNow, req.q, req.offset))
                              ELSE goesOn([req EXCEPT
                                              !.pc = "details", !.got = got,
                                              !.listing = IF searching
                                                          THEN [first EXCEPT !.total = got]
                                                          ELSE listingNow])
                           /\ UNCHANGED itemsCache
                  [] req.pc = "details" ->
                       IF req.batch + 1 < detailRequests(req.got)
                       THEN /\ goesOn([req EXCEPT !.batch = @ + 1])
                            /\ UNCHANGED itemsCache
                       ELSE /\ answers(pageOf(req.listing, req.q, req.offset))
                            /\ itemsCache' = IF searching
                                             THEN saveToCache(itemsCache, Account,
                                                              req.listing, NoFilter,
                                                              NoFilter, now)
                                             ELSE itemsCache
    /\ cacheOut' = NoOp
    /\ UNCHANGED <<localStorage, dataSource, isLoading, isLoadingMore, isLoadingVisits,
                   currentPage, listTotalItems, listHasMore, listSearchQuery, visitReqs,
                   loads, relisted, relistReqs>>
    /\ UNCHANGED <<now, ticks, authVars, constructed, sets, ordersVars, searchVars, httpVars,
                   handlerVars>>
    /\ UNCHANGED <<catalog, acked, itemReqs, itemsOut>>

\* the answer of the backend to a forwarded GET /items arrives: 200 (ok),
\* which the tap of the interceptor stores (with the clock reads clock)
\* before the next callback runs, whose loadVisits reads the clock lapse
\* milliseconds after the tap; or an error, the handler's 500 or a failure
\* on the way
ListResponse(req, ok, clock, first, retry, lapse) ==
    /\ req \in listReqs
    /\ req.answer # NotHandled
    /\ ok => req.answer # Failed
    /\ listReqs' = listReqs \ {req}
    /\ IF ok
       THEN LET body == req.answer
                t == clockAfter(req.url, clock, first)
            IN  /\ onNext(req, body, dataSource,
                          set(localStorage, req.url, body, Omitted, clock, first, retry),
                          [op |-> "set", key |-> req.url, result |-> Null,
                           log |-> setLog(req.url, first, retry)], t, lapse)
       ELSE /\ lapse = 0
            /\ isLoading' = FALSE
            /\ isLoadingMore' = FALSE
            /\ cacheOut' = NoOp
            /\ UNCHANGED <<localStorage, dataSource, listTotalItems, listHasMore,
                           isLoadingVisits, visitReqs, now, ticks>>
    /\ UNCHANGED <<currentPage, listSearchQuery, loads, relisted, relistReqs>>
    /\ UNCHANGED <<authVars, constructed, sets, ordersVars, searchVars, itemsVars,
                   httpVars, handlerVars>>

\* the backend answers a forwarded GET /items/visits for the items ids: with
\* 200 (ok) and the count for them, which the tap stores and the next
\* callback maps onto the list, or with an error
ListVisitsResponse(ids, ok, count, clock, first, retry) ==
    /\ ids \in BagToSet(visitReqs)
    /\ visitReqs' = visitReqs (-) SetToBag({ids})
    /\ IF ok
       THEN /\ localStorage' = set(localStorage, visitsUrl(ids), visitsFor(ids, count),
                                   Omitted, clock, first, retry)
            /\ cacheOut' = [op |-> "set", key |-> visitsUrl(ids), result |-> Null,
                            log |-> setLog(visitsUrl(ids), first, retry)]
            /\ dataSource' = withVisits(dataSource, visitsFor(ids, count))
            /\ clockReaches(clockAfter(visitsUrl(ids), clock, first))
       ELSE /\ cacheOut' = NoOp
            /\ dataSource' = withoutVisits(dataSource)
            /\ UNCHANGED <<localStorage, now, ticks>>
    /\ isLoadingVisits' = FALSE
    /\ UNCHANGED <<isLoading, isLoadingMore, currentPage, listTotalItems, listHasMore,
                   listSearchQuery, listReqs, loads, relisted, relistReqs>>
    /\ UNCHANGED <<authVars, constructed, sets, ordersVars, searchVars, itemsVars,
                   httpVars, handlerVars>>

\* onRelist for a closed item of the list, with a price and a quantity
\* given: the POST, which the interceptor passes on without the cache
ListRelist ==
    /\ dataSource # << >>
    /\ BagCardinality(relistReqs) < MaxRelists
    /\ relistReqs' = relistReqs (+) SetToBag({[done |-> FALSE]})
    /\ cacheOut' = NoOp
    /\ UNCHANGED <<localStorage, dataSource, isLoading, isLoadingMore, isLoadingVisits,
                   currentPage, listTotalItems, listHasMore, listSearchQuery, listReqs,
                   visitReqs, loads, relisted>>
    /\ UNCHANGED <<now, ticks, authVars, constructed, sets, ordersVars, searchVars, itemsVars,
                   httpVars, handlerVars>>

\* the marketplace relists the item of a POST in flight
MarketRelists ==
    /\ [done |-> FALSE] \in BagToSet(relistReqs)
    /\ relisted < MaxRelists
    /\ relisted' = relisted + 1
    /\ relistReqs' = (relistReqs (-) SetToBag({[done |-> FALSE]}))
                        (+) SetToBag({[done |-> TRUE]})
    /\ cacheOut' = NoOp
    /\ UNCHANGED <<localStorage, dataSource, isLoading, isLoadingMore, isLoadingVisits,
                   currentPage, listTotalItems, listHasMore, listSearchQuery, listReqs,
                   visitReqs, loads>>
    /\ UNCHANGED <<now, ticks, authVars, constructed, sets, ordersVars, searchVars, itemsVars,
                   httpVars, handlerVars>>

\* the POST of onRelist is answered. With 200 (ok), after the marketplace
\* has relisted the item, the next callback calls loadPublications(); the
\* error callback, whether the item was relisted or not, leaves the list
ListRelisted(p, ok, lapse) ==
    /\ p \in BagToSet(relistReqs)
    /\ relistReqs' = relistReqs (-) SetToBag({p})
    /\ IF ok
       THEN /\ p.done
            /\ loads < MaxLoads
            /\ loadPublications(TRUE, listSearchQuery, 0, lapse)
       ELSE /\ lapse = 0
            /\ cacheOut' = NoOp
            /\ UNCHANGED <<localStorage, dataSource, isLoading, isLoadingMore, isLoadingVisits,
                           currentPage, listTotalItems, listHasMore, listSearchQuery, listReqs,
                           visitReqs, loads, now, ticks>>
    /\ UNCHANGED relisted
    /\ UNCHANGED <<authVars, constructed, sets, ordersVars, searchVars, itemsVars,
                   httpVars, handlerVars>>

\* the page is open: the CachingService is constructed on an empty
\* localStorage, the component is constructed
InitList ==
    /\ AuthIdle
    /\ OrdersIdle
    /\ MoreIdle
    /\ now = 1000000
    /\ ticks = 0
    /\ localStorage = EmptyStore
    /\ constructed = TRUE
    /\ cacheOut = NoOp
    /\ sets = 0

NextList ==
    \/ TickCache
    \/ \E q \in SearchTexts, lapse \in 0..MaxLapses : ListSearch(q, lapse)
    \/ \E lapse \in 0..MaxLapses : ListLoadMore(lapse)
    \/ \E req \in listReqs, ok \in BOOLEAN : ItemsHandled(req, ok)
    \/ \E req \in listReqs, ok \in BOOLEAN, clock \in ClockReads, w \in WriteOutcomes,
          lapse \in 0..MaxLapses :
          ListResponse(req, ok, clock, w[1], w[2], lapse)
    \/ \E ids \in BagToSet(visitReqs), ok \in BOOLEAN, count \in VisitCounts,
          clock \in ClockReads, w \in WriteOutcomes :
          ListVisitsResponse(ids, ok, count, clock, w[1], w[2])

\* the user at the publications list, searching and paging
SpecList == InitList /\ [][NextList]_vars

NextRelist ==
    \/ TickCache
    \/ \E lapse \in 0..MaxLapses : ListSearch(listSearchQuery, lapse)
    \/ \E lapse \in 0..MaxLapses : ListLoadMore(lapse)
    \/ \E req \in listReqs, ok \in BOOLEAN : ItemsHandled(req, ok)
    \/ \E req \in listReqs, ok \in BOOLEAN, clock \in ClockReads, w \in WriteOutcomes,
          lapse \in 0..MaxLapses :
          ListResponse(req, ok, clock, w[1], w[2], lapse)
    \/ \E ids \in BagToSet(visitReqs), ok \in BOOLEAN, count \in VisitCounts,
          clock \in ClockReads, w \in WriteOutcomes :
          ListVisitsResponse(ids, ok, count, clock, w[1], w[2])
    \/ ListRelist
    \/ MarketRelists
    \/ \E p \in BagToSet(relistReqs), ok \in BOOLEAN, lapse \in 0..MaxLapses :
          ListRelisted(p, ok, lapse)

\* the user at the publications list, reloading, paging and relisting closed
\* items, the search box left empty
SpecRelist == InitList /\ [][NextRelist]_vars

----------------------------------------------------------------------------
(* Claims about the token holder *)

\* getToken calls that are past the expiry check and still await I/O
PastCheck == {cr \in BagToSet(calls) : cr.op = "getToken" /\ cr.pc # "kvGet"}

\* a token is held and t >= created_at + expires_in*1000 - 5 minutes
HeldAndStale(held, t) ==
    /\ held # Null
    /\ t >= held.created_at + held.expires_in * 1000 - 5 * 60 * 1000

HeldAndFresh(held, t) ==
    /\ held # Null
    /\ t < held.created_at + held.expires_in * 1000 - 5 * 60 * 1000

\* C1 as stated: a getToken call sends a refresh request when and only when
\* the token it holds, in memory or loaded from storage, is within five
\* minutes of its expiry or past it at the time of the call; a fresher token
\* is returned as it is, without a request.
C1_RefreshIffHeldAndStale ==
    /\ \A cr \in PastCheck : (cr.requests = 1) <=> HeldAndStale(cr.held, cr.called)
    /\ lastReturn.op = "getToken" =>
          /\ (lastReturn.requests = 1) <=> HeldAndStale(lastReturn.held, lastReturn.called)
          /\ HeldAndFresh(lastReturn.held, lastReturn.called) =>
                /\ lastReturn.outcome = "returned"
                /\ lastReturn.result = lastReturn.held.access_token
                /\ lastReturn.requests = 0

\* C1 amended: the refresh request is sent when and only when the token
\* that getToken holds is, at the clock read of its isTokenExpired() (on the
\* call for a token in memory, after the awaited load for one in storage),
\* within five minutes of its expiry or past it, and carries a
\* refresh_token; a token fresher than that at that read is returned as it
\* is, without a request.
C1_RefreshIffStaleAndRefreshable ==
    /\ \A cr \in PastCheck :
          (cr.requests = 1) <=>
              (HeldAndStale(cr.held, cr.checked) /\ cr.held.refresh_token # 0)
    /\ lastReturn.op = "getToken" =>
          /\ (lastReturn.requests = 1) <=>
                (/\ HeldAndStale(lastReturn.held, lastReturn.checked)
                 /\ lastReturn.held.refresh_token # 0)
          /\ HeldAndFresh(lastReturn.held, lastReturn.checked) =>
                /\ lastReturn.outcome = "returned"
                /\ lastReturn.result = lastReturn.held.access_token
                /\ lastReturn.requests = 0

\* a getToken call was made while the stored token was more than five
\* minutes from its expiry; the clock reached the refresh threshold while the
\* token was being loaded, and the call refreshed the token and returned
C1_Witness ==
    /\ lastReturn.op = "getToken"
    /\ lastReturn.outcome = "returned"
    /\ lastReturn.requests = 1
    /\ lastReturn.called < refreshThreshold(lastReturn.held)
    /\ lastReturn.checked = refreshThreshold(lastReturn.held)

\* C2 as stated: whenever getToken returns, the token data whose access token
\* it returns is not expired (isTokenExpired() is false) at that moment.
C2_ReturnedTokenValid ==
    (lastReturn.op = "getToken" /\ lastReturn.outcome = "returned") =>
        /\ lastReturn.result = tokenData.access_token
        /\ ~isTokenExpired

\* the step in which the refresh request of a getToken call failed
RefreshOfGetTokenFailed ==
    /\ lastReturn' # NoReturn
    /\ lastReturn'.op = "getToken"
    /\ lastReturn'.outcome = "rejected"
    /\ lastReturn'.requests >= 1

\* C6: a getToken call issues at most one refresh request; when that request
\* fails the call rejects with the request's error, no further request is
\* started, and the in-memory token data, the key-value store and the token
\* file are what they were.
C6_OneRefreshNoRetry ==
    /\ [](/\ \A cr \in BagToSet(calls) : cr.op = "getToken" => cr.requests <= 1
          /\ lastReturn.op = "getToken" => lastReturn.requests <= 1)
    /\ [][RefreshOfGetTokenFailed =>
            /\ tokenData' = tokenData
            /\ kvStore' = kvStore
            /\ tokenFile' = tokenFile
            /\ lastReturn'.error \in {AxiosError(st) : st \in AuthFailures}
            /\ BagCardinality(calls') = BagCardinality(calls) - 1
            /\ InFlight("post")' \subseteq InFlight("post")]_vars

\* a getToken call was rejected because its one refresh request failed, and
\* the stale token is still held
C6_Witness ==
    /\ lastReturn.op = "getToken"
    /\ lastReturn.outcome = "rejected"
    /\ lastReturn.requests = 1
    /\ tokenData # Null
    /\ tokenData = lastReturn.held

\* a getToken call, in flight or just completed, got its data from origin
\* and the data is td
LoadedAs(origin, td) ==
    \E c \in BagToSet(calls) \cup {lastReturn} :
        c.op = "getToken" /\ c.loaded = origin /\ c.held = td

\* C13: once a token was saved, a token holder with empty memory that calls
\* getToken loads token data equal to what was last saved: from the key-value
\* store when it is configured (and answers), from the token file when the
\* process runs locally without the key-value store.
C13_PersistenceRoundTrips ==
    [][lastSaved # Null =>
        /\ \A cr \in InFlight("kvGet") :
              KvGetResponse(cr, TRUE) => LoadedAs("kv", lastSaved.data)'
        /\ (~env.kvUrl /\ ~env.serverless /\ tokenData = Null /\ GetTokenCall("none"))
              => LoadedAs("file", lastSaved.data)']_vars

\* after a restart getToken loaded from the key-value store the token that
\* was granted and saved in the previous life of the process
C13_Witness ==
    /\ lastReturn.op = "getToken"
    /\ lastReturn.outcome = "returned"
    /\ lastReturn.loaded = "kv"
    /\ lastSaved # Null
    /\ lastReturn.held = lastSaved.data
    /\ lastReturn.held.access_token = 1

\* C15: a callback without a string code is answered 400 and no request to
\* the auth server is made; the success page (200) is sent only when
\* getAccessToken returned and the holder holds the token just issued; when
\* the exchange fails the answer is 500, and while the exchange is pending or
\* failing the held token data stays as it was.
C15_CallbackContract ==
    [][/\ \A code \in Queries :
             (CallbackRequest(code) /\ (code.type # "string" \/ code.value = ""))
                => /\ response'.route = "callback" /\ response'.status = 400
                   /\ calls' = EmptyBag
                   /\ UNCHANGED <<tokenData, kvStore, tokenFile, issued>>
       /\ response'.route = "callback" => response'.status \in {200, 400, 500}
       /\ (response'.route = "callback" /\ response'.status = 200)
             => /\ lastReturn'.op = "getAccessToken"
                /\ lastReturn'.outcome = "returned"
                /\ tokenData' # Null
                /\ tokenData'.access_token = issued'
                /\ lastReturn'.result = issued'
       /\ (response'.route = "callback" /\ response'.status = 500)
             => /\ lastReturn'.op = "getAccessToken"
                /\ lastReturn'.outcome = "rejected"
                /\ UNCHANGED <<tokenData, kvStore, tokenFile>>
       /\ \A cr \in InFlight("post") :
             (cr.route = "callback" /\ issued' = issued)
                => UNCHANGED <<tokenData, kvStore, tokenFile>>]_vars

\* a failed exchange answered 500 while a token was held
C15_Witness ==
    /\ response.route = "callback"
    /\ response.status = 500
    /\ tokenData # Null
    /\ tokenData.access_token = 1

\* C16 as stated: a run of the scheduled job that finds a held token expired
\* or within five minutes of expiry calls refreshAccessToken, so no run skips
\* the refresh while the held token is stale (and carries a refresh token).
C16_CronRefreshesStaleToken ==
    (lastReturn.op = "cron" /\ lastReturn.outcome = "skipped") =>
        ~(tokenData # Null /\ tokenData.refresh_token # 0 /\ isTokenExpired)

\* C14 as stated: when the key-value store is configured and the process is
\* not serverless, a token acquisition or refresh that succeeded leaves the
\* token persisted in at least one store, the file if the write to the
\* key-value store failed.
C14_SavedInSomeStore ==
    (/\ lastReturn.op \in {"getAccessToken", "refreshAccessToken"}
     /\ lastReturn.outcome = "returned"
     /\ env.kvUrl /\ env.kvToken /\ ~env.serverless) =>
        \/ kvStore # Null /\ CanParse(kvStore)
              /\ Parse(kvStore).access_token = lastReturn.result
        \/ tokenFile # Null /\ CanParse(tokenFile)
              /\ Parse(tokenFile).access_token = lastReturn.result

----------------------------------------------------------------------------
(* Claims about the route handlers *)

\* C7 as stated: when the held token is stale and the refresh request fails,
\* the route that called getToken answers 401.
C7_RefreshFailureAnswers401 ==
    (/\ response.from = "getToken"
     /\ lastReturn.requests = 1
     /\ lastReturn.outcome = "rejected") => response.status = 401

\* C8 as stated: every route maps a failure alike: 401 when no token is
\* available or it is expired, 400 when the upstream request failed with
\* HTTP 400, 500 otherwise (a 401 of the upstream may count either way).
C8_UniformErrorMapping ==
    response.error # Null =>
        IF response.from = "getToken" THEN response.status = 401
        ELSE IF response.error.status = 400 THEN response.status = 400
        ELSE IF response.error.status = 401 THEN response.status \in {401, 500}
        ELSE response.status = 500

----------------------------------------------------------------------------
(* Claims about the pagination loop of GET /api/orders *)

\* the loop went round: it received a page and either asks for the next or left
LoopStep == ordersPc = "loop" /\ ordersPc' \in {"loop", "done"}

\* C5: the pagination loop terminates whatever the upstream answers; it asks
\* for another page only after a page with offset + limit < total that leaves
\* the offset at 10000 or below, and so stops after the first page with
\* offset + limit >= total (or without paging), or once the offset exceeds
\* 10000, whichever comes first.
C5_PaginationTerminates ==
    /\ (ordersPc = "loop") ~> (ordersPc # "loop")
    /\ [][LoopStep =>
            ((ordersPc' = "done") <=>
                \/ paging' = Null
                \/ offset + paging'.limit >= paging'.total
                \/ offset' > 10000)]_vars

\* the loop left at the cutoff while the upstream still reported more
C5_Witness ==
    /\ ordersPc = "done"
    /\ offset > 10000
    /\ paging # Null
    /\ paging.limit = 0
    /\ paging.total > offset

\* C11 as stated: the number of order records the pagination loop has
\* accumulated never exceeds 10000, whatever totals the upstream reports.
C11_AtMost10000Records == allOrders <= 10000

----------------------------------------------------------------------------
(* Claims about the item-id search and the detail batches *)

RECURSIVE Flatten(_)
Flatten(seqs) == IF seqs = << >> THEN << >> ELSE Head(seqs) \o Flatten(Tail(seqs))

\* C12: id searches ask for pages of 100; the detail requests carry at most 20
\* ids and never none, and in order they partition the fetched id list: put
\* end to end they are the list fetched so far, and the whole list once the
\* handler is through.
C12_BatchesPartitionIds ==
    /\ searchPc = "search" => (searchParams.limit = 100 /\ searchParams.offset % 100 = 0)
    /\ \A k \in 1..Len(sent) : Len(sent[k]) >= 1 /\ Len(sent[k]) <= 20
    /\ Len(Flatten(sent)) <= Len(itemIds)
    /\ Flatten(sent) = SubSeq(itemIds, 1, Len(Flatten(sent)))
    /\ searchPc = "done" => Flatten(sent) = itemIds
    /\ (searchMode = "items" /\ searchPc \in {"details", "done"}) =>
          /\ Flatten(batches) = itemIds
          /\ \A k \in 1..Len(batches) : Len(batches[k]) >= 1 /\ Len(batches[k]) <= 20

\* 107 ids were looked up in five batches of 20 and a last one of 7
C12_Witness ==
    /\ searchPc = "done"
    /\ Len(itemIds) = 107
    /\ Len(sent) = 6
    /\ Len(sent[6]) = 7

----------------------------------------------------------------------------
(* Claims about the items cache of the backend *)

\* C17: the cache check of GET /api/items serves an entry only while its age
\* is at most CACHE_TTL: when the entry under the key of (sellerId, status or
\* 'all', listing type or 'all') is that young, getFromCache returns its list,
\* which belongs to the seller; when it is older, getFromCache returns null
\* and the entry is deleted; when there is none, it returns null.
C17_NoEntryOlderThanTTL ==
    [][\A r \in itemReqs :
         (r.kind = "get" /\ r.pc = "usersMe" /\ searchOrSort(r.query) /\ ItemsGetUser(r)) =>
            LET key == String(r.seller) \o <<"_">>
                         \o (IF falsy(r.query.status) THEN ALL ELSE r.query.status.str)
                         \o <<"_">>
                         \o (IF falsy(r.query.listingType) THEN ALL
                             ELSE r.query.listingType.str)
            IN  IF key \in DOMAIN itemsCache
                      /\ now - itemsCache[key].timestamp <= CACHE_TTL
                THEN /\ itemsOut'.cached
                     /\ itemsOut'.cachedItems = itemsCache[key].data
                     /\ itemsCache[key].sellerId = r.seller
                     /\ key \in DOMAIN itemsCache'
                ELSE /\ ~itemsOut'.cached
                     /\ key \notin DOMAIN itemsCache']_vars

\* a list served from the cache at the very end of its five minutes
C17_Witness ==
    /\ itemsOut.kind = "get"
    /\ itemsOut.cached
    /\ itemsOut.seller = Account
    /\ itemsOut.cachedItems # << >>
    /\ now = CACHE_TTL
    /\ \E k \in DOMAIN itemsCache :
          itemsCache[k].sellerId = Account /\ itemsCache[k].timestamp = 0

\* C18 as stated: once POST /api/items answered 201 for a seller, a GET
\* /api/items answered from the cache for that seller carries a list fetched
\* after the item was created, hence one that has the item.
C18_NoStaleListAfterCreate ==
    (itemsOut.kind = "get" /\ itemsOut.cached) =>
        Len(itemsOut.cachedItems) >= acked[itemsOut.seller]

----------------------------------------------------------------------------
(* Claims about the CachingService *)

\* the entry stored for url before the step, if it parses
EntryBefore(url) == getItem(localStorage, CACHE_PREFIX \o url)

ExpiredBefore(url) ==
    /\ EntryBefore(url) # Null
    /\ CanParse(EntryBefore(url))
    /\ now > Parse(EntryBefore(url)).expiry

\* C3: a URL matching a blacklist pattern, letter case aside, is never served
\* from cache: get returns null for it and set writes no storage entry for it.
C3_BlacklistNeverServed ==
    /\ []((cacheOut.op = "get" /\ cacheOut.key \in {URL_AUTH, URL_VERIFY})
             => cacheOut.result = Null)
    /\ [][(cacheOut'.op = "set" /\ cacheOut'.key \in {URL_AUTH, URL_VERIFY})
             => localStorage' = localStorage]_vars

\* get was asked for "/api/Auth/url" while storage holds an unexpired entry
\* under its key
C3_Witness ==
    /\ cacheOut.op = "get"
    /\ cacheOut.key = URL_AUTH
    /\ cacheOut.log = "blacklist"
    /\ (CACHE_PREFIX \o URL_AUTH) \in DOMAIN localStorage
    /\ now <= localStorage[CACHE_PREFIX \o URL_AUTH].json.expiry

\* C4: get never returns the data of an entry whose expiry (time of set plus
\* ttl * 1000 ms) lies before the current time: it returns null.
C4_ExpiredNeverReturned ==
    [][(cacheOut'.op = "get" /\ ExpiredBefore(cacheOut'.key))
          => cacheOut'.result = Null]_vars

\* get met an entry written by set in this session after its ttl had elapsed
C4_Witness ==
    /\ cacheOut.op = "get"
    /\ cacheOut.log = "expired"
    /\ cacheOut.result = Null
    /\ sets > 0
    /\ now > 1000000 + 60 * 1000

\* C9: when get finds an entry whose expiry has passed, it returns null, the
\* entry is absent from storage afterwards, and every other entry of storage
\* is as it was.
C9_ExpiredEvictedOnRead ==
    [][(/\ cacheOut'.op = "get"
        /\ cacheOut'.key \in {URL_ORDERS, URL_ITEMS}
        /\ ExpiredBefore(cacheOut'.key))
         => /\ cacheOut'.result = Null
            /\ DOMAIN localStorage' = DOMAIN localStorage \ {CACHE_PREFIX \o cacheOut'.key}
            /\ \A k \in DOMAIN localStorage' : localStorage'[k] = localStorage[k]]_vars

\* get evicted the expired entry of "/api/orders" and left the other entries
C9_Witness ==
    /\ cacheOut.op = "get"
    /\ cacheOut.key = URL_ORDERS
    /\ cacheOut.log = "expired"
    /\ (CACHE_PREFIX \o URL_ORDERS) \notin DOMAIN localStorage
    /\ (CACHE_PREFIX \o URL_ITEMS) \in DOMAIN localStorage
    /\ KEY_SESSION \in DOMAIN localStorage

\* keys under the prefix whose value is an entry that is not expired
UnexpiredBefore ==
    {k \in DOMAIN localStorage :
        /\ startsWith(k, CACHE_PREFIX)
        /\ CanParse(localStorage[k])
        /\ now <= Parse(localStorage[k]).expiry}

\* C10 as stated: the scan run on construction removes exactly the entries
\* under the prefix that are expired or unparsable; the unexpired entries and
\* the keys without the prefix are as they were.
C10_ConstructionScanExact ==
    [][cacheOut'.op = "construct" =>
        /\ DOMAIN localStorage' =
              UnexpiredBefore \cup {k \in DOMAIN localStorage : ~startsWith(k, CACHE_PREFIX)}
        /\ \A k \in DOMAIN localStorage' : localStorage'[k] = localStorage[k]]_vars

-----------------------------------------------------------------------------
(* Claims about repeated GET /api/items                                     *)

\* the list holds exactly the items the seller has now, in some order
SameItems(list, n) ==
    /\ Len(list) = n
    /\ \A k \in 1..n : \E i \in 1..Len(list) : list[i] = Item(k)

\* C24: while the seller's items are unchanged, a GET answered from the
\* cache returns the items, order and total that a fresh fetch returns for
\* the same query, whatever GETs came before
C24_CachedSameAsFresh ==
    [][\A r \in itemReqs :
          (/\ r.kind = "get" /\ r.pc = "usersMe" /\ r \notin itemReqs'
           /\ itemsOut'.kind = "get" /\ itemsOut'.cached
           /\ SameItems(itemsOut'.cachedItems, catalog[r.seller]))
          => /\ itemsOut'.items = paginated(ItemsOf(catalog[r.seller]), r.query)
             /\ itemsOut'.total = Len(sortedItems(ItemsOf(catalog[r.seller]), r.query))]_vars

-----------------------------------------------------------------------------
(* Claims about POST /api/items                                            *)

\* C27: once the marketplace has created the item, the response to
\* POST /api/items is 201, whatever happens to the later requests
C27_CreatedMeans201 ==
    [][\A r \in itemReqs :
          (r.kind = "post" /\ r.itemId # 0 /\ r \notin itemReqs' /\ itemsOut'.kind = "post")
          => itemsOut'.status = 201]_vars

-----------------------------------------------------------------------------
(* Claims about concurrent saves of the token                               *)

\* code exchanges and refreshes running concurrently against a key-value
\* store in which every SET succeeds; the stored value changes only through
\* saveTokens
NextRace ==
    \/ RefreshCall
    \/ GetAccessTokenCall
    \/ \E cr \in BagToSet(calls), e \in ExpiresInChoices, r \in BOOLEAN, f \in BOOLEAN :
          PostOk(cr, e, r, f)
    \/ \E cr \in BagToSet(calls) : KvSetResponse(cr, TRUE)

SpecRace == InitAuth /\ [][NextRace]_vars

\* C23: with the key-value store in use, once every concurrent refresh or
\* code exchange has completed (all saves having succeeded), the token in
\* the store is the token held in memory
C23_StoreHoldsMemoryToken ==
    (kvReachable /\ issued > 0 /\ calls = EmptyBag) => kvStore = Stringify(tokenData)

----------------------------------------------------------------------------
(* Claims about the termination of the id search loops *)

\* the number of ids the page answered in this step brought
PageSize == Len(itemIds') - Len(itemIds)

\* C22, amended: both id search loops end, after at most ceil(total/100) + 1
\* requests for the total the first page advertised. GET /api/items ends the
\* loop at the first page with fewer than 100 ids or with the count at the
\* total; the catalog ends it when the count reaches the total or when a page
\* after the first has fewer than 100 ids.
C22_SearchLoopsEnd ==
    /\ [](~firstBatch => pages <= ((totalItems + 99) \div 100) + 1)
    /\ [][(searchPc = "search" /\ pages' = pages + 1) =>
             (searchPc' # "search") =
                IF searchMode = "items"
                THEN PageSize < 100 \/ Len(itemIds') >= totalItems'
                ELSE Len(itemIds') >= totalItems' \/ (~firstBatch /\ PageSize < 100)]_vars
    /\ (searchPc = "search" ~> searchPc # "search")

\* the catalog needed ceil(250/100) + 1 requests: an empty first page, then
\* three full ones
C22_Witness ==
    /\ searchMode = "catalog"
    /\ searchPc = "details"
    /\ totalItems = 250
    /\ pages = 4
    /\ Len(itemIds) = 300

\* C22 as stated: either loop stops as soon as a page has fewer than 100 ids
\* or the count reaches the advertised total.
C22_StopsAtShortPage ==
    [][(searchPc = "search" /\ pages' = pages + 1
            /\ (PageSize < 100 \/ Len(itemIds') >= totalItems'))
          => searchPc' # "search"]_vars

----------------------------------------------------------------------------
(* Claims about the handler of GET /api/orders *)

\* the time a parameter parses to, when it is a string that parses
ParsesAsDate(param) == param.type = "string" /\ param.text # "" /\ DateOf[param.text].valid

\* C21: with from and to both given (present and not empty), the request is
\* answered 400 at once, with no token asked for, when one of them does not
\* parse as a date, when from is not before to, or when to is more than 365
\* days after from; otherwise the handler goes on to getToken and both values
\* become the filters order.date_created.from / .to of apiParams.
C21_DateRangeValidated ==
    /\ [][LET from == ordersQuery'.from
               to == ordersQuery'.to
           IN (hPc = "idle" /\ given(from) /\ given(to)) =>
               IF \/ ~ParsesAsDate(from) \/ ~ParsesAsDate(to)
                  \/ DateOf[from.text].time >= DateOf[to.text].time
                  \/ DateOf[to.text].time - DateOf[from.text].time > 365 * 86400
               THEN ordersOut'.status = 400 /\ hPc' = "idle"
               ELSE ordersOut'.status = 0 /\ hPc' = "token"]_vars
    /\ [](hPc \in {"search", "details"} /\ given(ordersQuery.from) /\ given(ordersQuery.to)
            => apiParams.from = ordersQuery.from /\ apiParams.to = ordersQuery.to)

\* a range of exactly 365 days went through and is searched with both filters
C21_Witness ==
    /\ hPc = "search"
    /\ apiParams.from = Text("2025-01-01T00:00:00Z")
    /\ apiParams.to = Text("2026-01-01T00:00:00Z")

\* C28: the 200 response of GET /api/orders has one entry per order found, in
\* the order of the search: the detailed order where the detail request
\* succeeded, the basic record of the search where it failed
C28_OneEntryPerOrder ==
    (ordersOut.status = 200) =>
        /\ Len(ordersOut.body) = Len(orderList)
        /\ \A i \in DOMAIN orderList :
              ordersOut.body[i] = IF detailOk[i] THEN Detailed(orderList[i].id)
                                  ELSE orderList[i]

\* two orders were found; the detail request of the first failed, that of
\* the second succeeded, and the response was sent
C28_Witness ==
    /\ ordersOut.status = 200
    /\ Len(orderList) = 2
    /\ ~detailOk[1] /\ detailOk[2]
    /\ ordersOut.body = <<Basic(1), Detailed(2)>>

-----------------------------------------------------------------------------
(* Claims about the TTL and the full storage of the CachingService         *)

\* the TTL in seconds that the table gives each URL: the first pattern in
\* table order that occurs in it, the default when none does
TableTtl ==
    [u \in TtlUrls |->
        CASE u = URL_ORDERS -> 180
          [] u = URL_ITEM_ORDERS -> 180
          [] u = URL_PUBLICATIONS -> 240
          [] OTHER -> 300]

\* the write of the set went through, at once or at the retry
Saved(w) == w[1] = "ok" \/ (w[1] = "quota" /\ w[2] = "ok")

EntryAfter(key) == Parse(localStorage'[getCacheKey(key)])

\* the clock read from which set computes the expiry of the entry it
\* stores: the one at its start, or the one it makes for the retry
expiryRead(clock, w) == IF w[1] = "ok" THEN clock[1] ELSE clock[3]

\* C29 (amended): the entry that set stores expires at the clock read made
\* for it (at the start of set, or after the cleanup when the entry is
\* stored at the retry) plus the TTL, which is ttl_seconds when a value
\* that "||" does not take for false is passed, and otherwise (argument left
\* out, 0 or NaN) that of the first matching pattern of the table, or the
\* default of 300 s
C29_TtlApplied ==
    [][\A key \in TtlUrls, data \in Bodies, ttl \in TtlArguments \cup FalsyTtlArguments,
          clock \in ClockReads, w \in WriteOutcomes :
          (Saved(w) /\ Set(key, data, ttl, clock, w[1], w[2])) =>
              EntryAfter(key).expiry =
                  expiryRead(clock, w)
                      + 1000 * (IF ttl \in {Omitted, Seconds(0), NaN} THEN TableTtl[key]
                                ELSE ttl.seconds)]_vars

\* "/user" is stored with the minute that was passed for it, and set has
\* just stored "/items/orders" without ttl_seconds at its retry, a
\* millisecond having passed between the clock reads for the expiry and for
\* the timestamp of the entry
C29_Witness ==
    /\ cacheOut.op = "set"
    /\ cacheOut.key = URL_ITEM_ORDERS
    /\ cacheOut.log = "saved after cleanup"
    /\ getCacheKey(URL_ITEM_ORDERS) \in DOMAIN localStorage
    /\ Parse(localStorage[getCacheKey(URL_ITEM_ORDERS)]).timestamp = now
    /\ Parse(localStorage[getCacheKey(URL_ITEM_ORDERS)]).expiry = (now - 1) + 180000
    /\ getCacheKey(URL_USER) \in DOMAIN localStorage
    /\ LET e == Parse(localStorage[getCacheKey(URL_USER)]) IN e.expiry = e.timestamp + 60000

\* C29 as stated: the TTL is ttl_seconds whenever one is passed, 0 included,
\* and the stored expiry is the time of the set plus the TTL
C29_ExplicitTtlAlwaysApplied ==
    [][\A key \in TtlUrls, data \in Bodies, ttl \in TtlArguments \cup {Seconds(0)},
          clock \in ClockReads, w \in WriteOutcomes :
          (Saved(w) /\ Set(key, data, ttl, clock, w[1], w[2])) =>
              EntryAfter(key).expiry =
                  now + 1000 * (IF ttl.passed THEN ttl.seconds ELSE TableTtl[key])]_vars

\* keys under the prefix whose value is an entry that is not expired at t
UnexpiredAt(t) ==
    {k \in DOMAIN localStorage :
        /\ startsWith(k, CACHE_PREFIX)
        /\ CanParse(localStorage[k])
        /\ t <= Parse(localStorage[k]).expiry}

\* keys under the prefix whose value is an entry that is expired at t
ExpiredAt(t) ==
    {k \in DOMAIN localStorage :
        /\ startsWith(k, CACHE_PREFIX)
        /\ CanParse(localStorage[k])
        /\ t > Parse(localStorage[k]).expiry}

\* a set whose write and whose one retry after the cleanup both fail for
\* lack of room returns normally and adds no key; it has removed the
\* entries expired at t, every entry unexpired at t and every key without
\* the prefix is as it was, and no entry for the key was added or altered
retryFailedKeeps(key, t) ==
    LET ck == getCacheKey(key) IN
    /\ cacheOut'.op = "set" /\ cacheOut'.log = "retry failed"
    /\ \A k \in DOMAIN localStorage :
          (k \in UnexpiredAt(t) \/ ~startsWith(k, CACHE_PREFIX))
             => (k \in DOMAIN localStorage' /\ localStorage'[k] = localStorage[k])
    /\ \A k \in ExpiredAt(t) : k \notin DOMAIN localStorage'
    /\ ck \in DOMAIN localStorage' =>
          (ck \in DOMAIN localStorage /\ localStorage'[ck] = localStorage[ck])
    /\ DOMAIN localStorage' \subseteq DOMAIN localStorage

\* C30 as stated: when the write and the one retry of a set both fail for
\* lack of room, the set returns normally, the expired entries are removed,
\* no entry for the key is added or altered, and every entry that was
\* unexpired before the call is still present
C30_FullStorageKeepsUnexpired ==
    [][\A key \in Urls, data \in Bodies, ttl \in TtlArguments, clock \in ClockReads :
          (~isBlacklistedOf[key] /\ Set(key, data, ttl, clock, "quota", "quota"))
              => retryFailedKeeps(key, now)]_vars

\* C30 (amended): when the write and the one retry of a set both fail for
\* lack of room, the set returns normally, no entry for the key is added or
\* altered, the entries that are expired when cleanExpiredEntries reads the
\* clock are removed, and every entry unexpired at that read, which may be
\* later than the start of the call, is still present
C30_KeepsUnexpiredAtCleanup ==
    [][\A key \in Urls, data \in Bodies, ttl \in TtlArguments, clock \in ClockReads :
          (~isBlacklistedOf[key] /\ Set(key, data, ttl, clock, "quota", "quota"))
              => retryFailedKeeps(key, clock[2])]_vars

\* the write and the retry of a set failed at 1100001, the clock having
\* been at 1100000 when the set was called: the entry written 100 s earlier
\* in this session for "/api/items", unexpired, is still there, and no
\* entry that expired at 1100000 is
C30_Witness ==
    /\ cacheOut.op = "set"
    /\ cacheOut.log = "retry failed"
    /\ sets = 2
    /\ ticks > MaxTicks
    /\ now = 1100001
    /\ getCacheKey(URL_ITEMS) \in DOMAIN localStorage
    /\ LET e == localStorage[getCacheKey(URL_ITEMS)] IN
       CanParse(e) /\ Parse(e).data \in Bodies /\ Parse(e).timestamp = 1000000
                   /\ now <= Parse(e).expiry
    /\ \A k \in DOMAIN localStorage :
          (startsWith(k, CACHE_PREFIX) /\ CanParse(localStorage[k]))
             => Parse(localStorage[k]).expiry # 1100000

-----------------------------------------------------------------------------
(* Claims about the publications list of the frontend                      *)

\* C25: after a successful relist the GET /items of loadPublications() is
\* sent to the backend, and the list shows nothing older than the state of
\* the backend after the relist
C25_RelistRefreshReachesBackend ==
    [][(\E p \in BagToSet(relistReqs), lapse \in 0..MaxLapses : ListRelisted(p, TRUE, lapse)) =>
          /\ \E req \in listReqs' \ listReqs : req.reset
          /\ \A i \in DOMAIN dataSource' : dataSource'[i].version = relisted']_vars

\* C26: at most one load-more request is in flight, and the pages shown are
\* pages for the search of the latest reset request, each page once
C26_OneLoadMoreLatestPages ==
    /\ Cardinality({req \in listReqs : ~req.reset}) <= 1
    /\ \A i \in DOMAIN dataSource : dataSource[i].q = listSearchQuery
    /\ \A i, k \in DOMAIN dataSource : i # k => dataSource[i].offset # dataSource[k].offset

----------------------------------------------------------------------------
(* Claims about the CachingInterceptor *)

\* the entry get would find under url: stored, parsable, not expired, and the
\* url not blacklisted
StoredUnexpired(url) ==
    /\ ~isBlacklistedOf[url]
    /\ truthy(EntryBefore(url))
    /\ CanParse(EntryBefore(url))
    /\ now <= Parse(EntryBefore(url)).expiry

\* C19 as stated: a GET whose urlWithParams has a stored, unexpired,
\* non-blacklisted entry is answered with status 200 and the stored body, and
\* is not forwarded, whatever body value was stored.
C19_HitServedFromCache ==
    [][\A url \in InterceptUrls :
         (Intercept("GET", url) /\ StoredUnexpired(url)) =>
            /\ httpOut'.kind = "respond"
            /\ httpOut'.fromCache
            /\ httpOut'.status = 200
            /\ httpOut'.body = Parse(EntryBefore(url)).data
            /\ pending' = pending]_vars

\* the keys whose value the step wrote
Written == {k \in DOMAIN localStorage' : k \notin DOMAIN localStorage
                                          \/ localStorage'[k] # localStorage[k]}

\* C20: an entry is written only when a forwarded GET is answered with status
\* 200, and under the key of that request's urlWithParams; a request with
\* another method is forwarded as it is, its answer is passed on, and neither
\* step reads or changes the cache.
C20_WrittenOnlyByGet200 ==
    [][/\ (constructed /\ Written # {}) =>
             /\ httpOut'.kind = "respond"
             /\ httpOut'.method = "GET"
             /\ httpOut'.status = 200
             /\ ~httpOut'.fromCache
             /\ Written = {CACHE_PREFIX \o httpOut'.url}
             /\ Parse(localStorage'[CACHE_PREFIX \o httpOut'.url]).data = httpOut'.body
       /\ (httpOut'.kind # "none" /\ httpOut'.method # "GET") =>
             /\ localStorage' = localStorage
             /\ cacheOut'.op = "none"
       /\ \A url \in InterceptUrls :
             Intercept("POST", url) =>
                /\ httpOut'.kind = "forward"
                /\ pending' = pending (+) SetToBag({[method |-> "POST", url |-> url,
                                                        tap |-> FALSE]})]_vars

\* the answer 200 to a forwarded GET was stored under its URL
C20_Witness ==
    /\ httpOut.kind = "respond"
    /\ httpOut.method = "GET"
    /\ httpOut.status = 200
    /\ ~httpOut.fromCache
    /\ httpOut.body = Body(3)
    /\ CACHE_PREFIX \o httpOut.url \in DOMAIN localStorage
    /\ CanParse(localStorage[CACHE_PREFIX \o httpOut.url])
    /\ Parse(localStorage[CACHE_PREFIX \o httpOut.url]).data = httpOut.body
    /\ Parse(localStorage[CACHE_PREFIX \o httpOut.url]).timestamp = now

====
